---- MODULE Spec2Model ----
(***************************************************************************)
(* ZXTapInspector: the TAP block reader (zxs_tap.h), the header parser     *)
(* (zxs_tap.h) and the BASIC detokenizer (zxs_bas.h) as state machines.    *)
(*                                                                         *)
(* C arrays are 0-based, TLA+ sequences 1-based: data[i] of the source is  *)
(* data[i+1] here.  Offsets, positions and sizes keep the source's 0-based *)
(* values.                                                                 *)
(***************************************************************************)
EXTENDS Integers, Sequences, FiniteSets, TLC

VARIABLES
    tape,       \* the bytes of the file behind tap_file
    fpos,       \* the read position of tap_file
    call,       \* what the last zxs_read_tap_block call did
    reads,      \* the blocks returned so far, with the byte range each consumed
    outcomes,   \* the <<cause, returned value>> pairs seen so far
    block,      \* the block handed to zxs_parse_header
    header,     \* the ZXSHeader zxs_parse_header filled
    hret,       \* the value zxs_parse_header returned (-1: not called yet)
    dtname,     \* the string zxs_get_datatype_name returned ("": not called yet)
    data,       \* the payload handed to zxs_fprint_basic_program
    dptr,       \* offset of the data pointer into the payload
    datasize,   \* bytes left from dptr
    pc,         \* position in zxs_fprint_basic_program / zxs_fprint_basic_line
    line,       \* the locals of the running zxs_fprint_basic_line call
    file,       \* what was written to the file stream
    stdout,     \* what was written to the standard output
    emitted,    \* the (line number, text) pairs completed so far
    ret,        \* the value zxs_fprint_basic_program returned
    maxread,    \* highest payload offset read so far (-1: none)
    head,       \* what the last pass over a record head did
    step,       \* what the last iteration of zxs_fprint_basic_line did
    cli,        \* the locals of the running sub-command and what it printed
    hex         \* the locals of the running fprint_hex_data call and its output

tapVars   == <<tape, fpos, call, reads, outcomes>>
hdrVars   == <<block, header, hret, dtname>>
basVars   == <<data, dptr, datasize, pc, line, file, stdout, emitted, ret,
               maxread, head, step>>
cliVars   == <<cli, hex>>
vars      == <<tape, fpos, call, reads, outcomes, block, header, hret, dtname,
               data, dptr, datasize, pc, line, file, stdout, emitted, ret, maxread,
               head, step, cli, hex>>

(***************************************************************************)
(* Bounds of the model.                                                    *)
(***************************************************************************)
MaxTapeLen == 9     \* longest tape file explored
MaxRawLen  == 7     \* longest BASIC payload of arbitrary bytes explored
MaxRecords == 2     \* most line records (and end markers) of a built payload

(***************************************************************************)
(* Helpers.                                                                *)
(***************************************************************************)
Min(a, b) == IF a < b THEN a ELSE b

RECURSIVE SeqsUpTo(_, _)
SeqsUpTo(S, n) ==
    IF n = 0 THEN {<< >>}
    ELSE LET shorter == SeqsUpTo(S, n - 1)
         IN  shorter \cup {Append(s, b) : s \in {t \in shorter : Len(t) = n - 1}, b \in S}

\* the null pointer; also the value of a variable nothing was stored in yet
NULL == [null |-> TRUE]

\* An unsigned is 32 bits wide.  TLC's integers stop at 2^31 - 1, so a 32-bit
\* unsigned value is kept as two 16-bit halves: value = hi * 2^16 + lo.
HalfWord == 256 * 256

\* (a - b) in unsigned arithmetic, for 0 <= a, b < 2^16: wraps modulo 2^32
UnsignedSub(a, b) ==
    IF a >= b THEN [hi |-> 0, lo |-> a - b]
    ELSE [hi |-> HalfWord - 1, lo |-> HalfWord + a - b]

\* u = n for an unsigned u and 0 <= n < 2^16
UnsignedEq(u, n) == u.hi = 0 /\ u.lo = n

\* common.h: GET_LE_WORD(ptr, index), index 0-based
GetWordHighByteFirst(ptr, index) == ptr[index + 1] * 256 + ptr[index + 2]
GET_LE_WORD(ptr, index) == ptr[index + 2] * 256 + ptr[index + 1]

\* common.h: GET_BE_WORD(ptr, index), index 0-based
GET_BE_WORD(ptr, index) == ptr[index + 1] * 256 + ptr[index + 2]

(***************************************************************************)
(* zxs_tap.h: zxs_read_tap_block                                           *)
(***************************************************************************)
\* byte values of the explored tapes: enough for the lengths 0 (too short), 2
\* (empty payload), 3 (one payload byte) and 512 and more (longer than the tape),
\* and for a tag, a payload byte and a checksum that all differ
TapeBytes == {0, 2, 3}

\* fread(ptr, size, nmemb, tap_file) at position p: the bytes it takes.
\* nmemb is an unsigned (two halves), size is 1 or 2.
FreadBytes(p, size, nmemb) ==
    IF nmemb.hi > 0 THEN Len(tape) - p
    ELSE Min(size * nmemb.lo, Len(tape) - p)

One == [hi |-> 0, lo |-> 1]

\* malloc(sizeof(ZXSTapBlock) + datasize): a request for a block of a declared
\* length >= 2 is at most 64 KiB and is taken to succeed; the request made
\* after block_length - 2 wrapped around (about 4 GiB) may succeed or fail.
MallocOutcomes(block_length) == IF block_length >= 2 THEN {TRUE} ELSE BOOLEAN

\* zxs_tap.h:98  datasize = block_length - 2, in unsigned arithmetic
DataSizeNoTagCount(block_length) == UnsignedSub(block_length, 1)
DataSize(block_length) == UnsignedSub(block_length, 2)

\* zxs_tap.h:103-105  the three reads after the length, each made only when
\* nothing failed before it (error = error || ...): how many bytes each takes
BodyReads(start, size, mallocOk) ==
    LET nType  == IF mallocOk THEN FreadBytes(start + 2, 1, One) ELSE 0
        okType == mallocOk /\ nType = 1
        nData  == IF okType THEN FreadBytes(start + 2 + nType, 1, size) ELSE 0
        okData == okType /\ UnsignedEq(size, nData)
        nSum   == IF okData
                  THEN FreadBytes(start + 2 + nType + nData, 1, One) ELSE 0
    IN  [type |-> nType, data |-> nData, sum |-> nSum,
         error |-> ~(okData /\ nSum = 1)]

\* The checksum a Spectrum writes after a block: the XOR of the tag and of
\* every payload byte (the reader never computes it).
RECURSIVE BitXor(_, _)
BitXor(a, b) ==
    IF a = 0 /\ b = 0 THEN 0
    ELSE ((a + b) % 2) + 2 * BitXor(a \div 2, b \div 2)

RECURSIVE XorBytes(_)
XorBytes(d) == IF d = << >> THEN 0 ELSE BitXor(Head(d), XorBytes(Tail(d)))

BlockRejectedOnBadChecksum(start, size, n) ==
    IF n.error THEN NULL
    ELSE IF tape[start + 3 + n.data + 1]
            # XorBytes(SubSeq(tape, start + 3, start + 3 + n.data))
    THEN NULL
    ELSE [ type     |-> tape[start + 3],
           checksum |-> tape[start + 3 + n.data + 1],
           datasize |-> size.lo,
           data     |-> SubSeq(tape, start + 4, start + 3 + n.data) ]

\* zxs_tap.h:108-114  the value returned: NULL on error, else the block
BlockChecksumFromTag(start, size, n) ==
    IF n.error THEN NULL
    ELSE [ type     |-> tape[start + 3],
           checksum |-> tape[start + 3],
           datasize |-> size.lo,
           data     |-> SubSeq(tape, start + 4, start + 3 + n.data) ]
BlockReturned(start, size, n) ==
    IF n.error THEN NULL
    ELSE [ type     |-> tape[start + 3],
           checksum |-> tape[start + 3 + n.data + 1],
           datasize |-> size.lo,
           data     |-> SubSeq(tape, start + 4, start + 3 + n.data) ]

\* Why a call returned what it did (not a value of the program: the program
\* returns only the block pointer).
Cause(prefixRead, mallocOk, error) ==
    IF ~prefixRead THEN "eos"
    ELSE IF ~mallocOk THEN "nomem"
    ELSE IF error THEN "truncated"
    ELSE "block"

\* What the caller holds after the call: a null pointer or a block.
Returned(b) == IF b = NULL THEN "NULL" ELSE "block"

zxs_read_tap_block ==
    LET start == fpos
        nLen  == FreadBytes(start, 2, One)
    IN  IF nLen # 2
        THEN \* the length could not be read: error is set and no read follows;
             \* block_length is computed from an uninitialized length[], is used
             \* only for the size of an allocation that is freed again
             /\ fpos' = start + nLen
             /\ call' = [ made |-> TRUE, start |-> start, prefix |-> FALSE,
                          block_length |-> -1, datasize |-> [hi |-> -1, lo |-> -1],
                          bodyread |-> 0, cause |-> Cause(FALSE, TRUE, TRUE),
                          ret |-> NULL ]
             /\ outcomes' = outcomes \cup
                    {[cause |-> Cause(FALSE, TRUE, TRUE), value |-> Returned(NULL)]}
             /\ UNCHANGED reads
        ELSE \E mallocOk \in MallocOutcomes(GET_LE_WORD(tape, start)) :
             LET block_length == GET_LE_WORD(tape, start)
                 size         == DataSize(block_length)
                 n            == BodyReads(start, size, mallocOk)
                 b            == BlockReturned(start, size, n)
                 end          == start + 2 + n.type + n.data + n.sum
                 cause        == Cause(TRUE, mallocOk, n.error)
             IN  /\ fpos' = end
                 /\ call' = [ made |-> TRUE, start |-> start, prefix |-> TRUE,
                              block_length |-> block_length, datasize |-> size,
                              bodyread |-> n.type + n.data + n.sum,
                              cause |-> cause, ret |-> b ]
                 /\ outcomes' = outcomes \cup
                        {[cause |-> cause, value |-> Returned(b)]}
                 /\ reads' = IF b = NULL THEN reads
                             ELSE Append(reads, [ start |-> start, end |-> end,
                                                  block |-> b ])

ReadBlock ==
    /\ zxs_read_tap_block
    /\ UNCHANGED tape
    /\ UNCHANGED hdrVars
    /\ UNCHANGED basVars
    /\ UNCHANGED cliVars

NoCall == [ made |-> FALSE, start |-> 0, prefix |-> FALSE, block_length |-> -1,
            datasize |-> [hi |-> -1, lo |-> -1], bodyread |-> 0,
            cause |-> "none", ret |-> NULL ]

HdrIdle == /\ block = NULL /\ header = NULL /\ hret = -1 /\ dtname = ""
BasIdle == /\ data = << >> /\ dptr = 0 /\ datasize = 0 /\ pc = "idle"
           /\ line = NULL /\ file = "" /\ stdout = "" /\ emitted = << >>
           /\ ret = -1 /\ maxread = -1 /\ head = NULL
           /\ step = NULL
TapIdle == /\ tape = << >> /\ fpos = 0 /\ call = NoCall /\ reads = << >>
           /\ outcomes = {}
CliIdle == cli = NULL /\ hex = NULL

InitTap ==
    /\ tape \in SeqsUpTo(TapeBytes, MaxTapeLen)
    /\ fpos = 0
    /\ call = NoCall
    /\ reads = << >>
    /\ outcomes = {}
    /\ HdrIdle
    /\ BasIdle
    /\ CliIdle

NextTap == ReadBlock

SpecTap == InitTap /\ [][NextTap]_vars

(***************************************************************************)
(* zxs_tap.h: zxs_parse_header, zxs_get_datatype_name                      *)
(***************************************************************************)
ZXS_HEADER_SIZE    == 17
ZXS_BLKTYPE_HEADER == 0
ZXS_BLKTYPE_DATA   == 255
SPACE              == 32

\* zxs_tap.h:130  the test a block must pass to be parsed as a header
IsHeaderBlockSizeOnly(b) == b.datasize = ZXS_HEADER_SIZE
IsHeaderBlock(b) ==
    ~(b.type # ZXS_BLKTYPE_HEADER \/ b.datasize # ZXS_HEADER_SIZE)

\* zxs_tap.h:136-138  for( i=9; i>=0 && filename[i]==' '; i--) filename[i]='\0'
RECURSIVE StripSpaces(_, _)
StripSpaces(buf, i) ==
    IF i >= 0 /\ buf[i + 1] = SPACE
    THEN StripSpaces([buf EXCEPT ![i + 1] = 0], i - 1)
    ELSE buf

\* zxs_tap.h:134-138  the char filename[12] of the header: the 10 bytes at
\* data[1..10], two NULs, then the trailing spaces overwritten by NULs
FilenameBuffer(d) == StripSpaces(SubSeq(d, 2, 11) \o <<0, 0>>, 9)

\* the filename as every reader of the C string sees it: up to the first NUL
RECURSIVE CString(_)
CString(buf) ==
    IF buf = << >> \/ buf[1] = 0 THEN << >>
    ELSE <<buf[1]>> \o CString(Tail(buf))

\* zxs_tap.h:133-141  the header zxs_parse_header fills from a header block
ParsedHeader(b) ==
    [ datatype |-> b.data[1],
      filename |-> FilenameBuffer(b.data),
      length   |-> GET_LE_WORD(b.data, 11),
      param1   |-> GET_LE_WORD(b.data, 13),
      param2   |-> GET_LE_WORD(b.data, 15) ]

zxs_parse_header ==
    /\ hret = -1
    /\ IF block = NULL
       THEN hret' = 0 /\ UNCHANGED header
       ELSE IF ~IsHeaderBlock(block)
       THEN hret' = 0 /\ UNCHANGED header
       ELSE hret' = 1 /\ header' = ParsedHeader(block)
    /\ UNCHANGED <<block, dtname>>

\* zxs_tap.h:68-81
DatatypeName(datatype) ==
    CASE datatype = 0 -> "BASIC-PROGRAM"
      [] datatype = 1 -> "NUMBER-ARRAY"
      [] datatype = 2 -> "STRING-ARRAY"
      [] datatype = 3 -> "CODE"
      [] OTHER        -> "UNKNOWN(" \o ToString(datatype) \o ")"

\* a caller naming the datatype of the header it parsed
zxs_get_datatype_name ==
    /\ hret = 1
    /\ dtname = ""
    /\ dtname' = DatatypeName(header.datatype)
    /\ UNCHANGED <<block, header, hret>>

ParseHeader ==
    /\ zxs_parse_header
    /\ UNCHANGED tapVars
    /\ UNCHANGED basVars
    /\ UNCHANGED cliVars

NameDatatype ==
    /\ zxs_get_datatype_name
    /\ UNCHANGED tapVars
    /\ UNCHANGED basVars
    /\ UNCHANGED cliVars

\* The header payloads explored.  The 10-byte filename field is made of up
\* to three runs of 'A', space and NUL bytes; the datatype byte and the six
\* bytes of the three words range over small and large byte values.
FilenameBytes == {65, SPACE, 0}
WordBytes     == {0, 1, 255}
DatatypeBytes == {0, 1, 2, 3, 4, 255}

FilenameFields ==
    { [i \in 1..10 |-> IF i <= c1 THEN s1 ELSE IF i <= c2 THEN s2 ELSE s3] :
        c1 \in 0..10, c2 \in 0..10, s1 \in FilenameBytes, s2 \in FilenameBytes,
        s3 \in FilenameBytes }

LoaderField == <<76, 79, 65, 68, 69, 82, SPACE, SPACE, SPACE, SPACE>>

HeaderPayloads ==
    { <<0>> \o f \o <<10, 0, 10, 0, 0, 0>> : f \in FilenameFields }
    \cup
    { <<dt>> \o LoaderField \o w : dt \in DatatypeBytes, w \in [1..6 -> WordBytes] }

HeaderInputs ==
    { [ type |-> t, checksum |-> 0, datasize |-> ZXS_HEADER_SIZE + d,
        data |-> IF d = -1 THEN SubSeq(p, 1, ZXS_HEADER_SIZE - 1)
                 ELSE IF d = 1 THEN Append(p, 0) ELSE p ] :
        t \in {ZXS_BLKTYPE_HEADER, ZXS_BLKTYPE_DATA, 1}, d \in {-1, 0, 1},
        p \in HeaderPayloads }

InitHdr ==
    /\ block \in HeaderInputs
    /\ header = NULL
    /\ hret = -1
    /\ dtname = ""
    /\ TapIdle
    /\ BasIdle
    /\ CliIdle

NextHdr == ParseHeader \/ NameDatatype

SpecHdr == InitHdr /\ [][NextHdr]_vars

(***************************************************************************)
(* zxs_bas.h: the token tables                                             *)
(***************************************************************************)
CopyrightAsDelete == "{7F}"
ZXS_COPYRIGHT_CHAR == "{(C)}"

\* zxs_bas.h: the control-character formats, each cut at its %d placeholders
ZXS_CTRL_CHARS == <<
    <<"{00}">>, <<"{01}">>, <<"{02}">>, <<"{03}">>,
    <<"{04}">>, <<"{05}">>, <<"\t">>, <<"{07}">>,
    <<"{08}">>, <<"{09}">>, <<"{0A}">>, <<"{0B}">>,
    <<"{0C}">>, <<"\n">>, <<>>, <<"{0F}">>,
    <<"{INK ", "%d", "}">>, <<"{PAPER ", "%d", "}">>, <<"{FLASH ", "%d", "}">>, <<"{BRIGHT ", "%d", "}">>,
    <<"{INVERSE ", "%d", "}">>, <<"{OVER ", "%d", "}">>, <<"{AT ", "%d", ",", "%d", "}">>, <<"{TAB ", "%d", ",", "%d", "}">>,
    <<"{18}">>, <<"{19}">>, <<"{1A}">>, <<"{1B}">>,
    <<"{1C}">>, <<"{1D}">>, <<"{1E}">>, <<"{1F}">> >>

ZXS_GRAPH_CHARS_START == 128
ZXS_GRAPH_CHARS == <<
    "{-8}", "{-1}", "{-2}", "{-3}", "{-4}", "{-5}", "{-6}", "{-7}",
    "{+7}", "{+6}", "{+5}", "{+4}", "{+3}", "{+2}", "{+1}", "{+8}" >>

ZXS_UDG_CHARS_START == 144
ZXS_UDG_CHARS == <<
    "{A}", "{B}", "{C}", "{D}", "{E}", "{F}", "{G}", "{H}",
    "{I}", "{J}", "{K}", "{L}", "{M}", "{N}", "{O}", "{P}",
    "{Q}", "{R}", "{S}", "{T}", "{U}" >>

\* zxs_bas.h: the keywords, each cut into its leading space (if any), its
\* body and its trailing space (if any), so that keyword[0], ++keyword and
\* keyword[strlen(keyword)-1] are Head, Tail and the last element
ZXS_KEYWORDS_START == 163
ZXS_KEYWORDS == <<
    <<" ", "SPECTRUM", " ">>, <<" ", "PLAY", " ">>, <<"RND">>, <<"INKEY$">>,
    <<"PI">>, <<"FN", " ">>, <<"POINT", " ">>, <<"SCREEN$", " ">>,
    <<"ATTR", " ">>, <<"AT", " ">>, <<"TAB", " ">>, <<"VAL$", " ">>,
    <<"CODE", " ">>, <<"VAL", " ">>, <<"LEN", " ">>, <<"SIN", " ">>,
    <<"COS", " ">>, <<"TAN", " ">>, <<"ASN", " ">>, <<"ACS", " ">>,
    <<"ATN", " ">>, <<"LN", " ">>, <<"EXP", " ">>, <<"INT", " ">>,
    <<"SQR", " ">>, <<"SGN", " ">>, <<"ABS", " ">>, <<"PEEK", " ">>,
    <<"IN", " ">>, <<"USR", " ">>, <<"STR$", " ">>, <<"CHR$", " ">>,
    <<"NOT", " ">>, <<"BIN", " ">>, <<" ", "OR", " ">>, <<" ", "AND", " ">>,
    <<"<=">>, <<">=">>, <<"<>">>, <<" ", "LINE", " ">>,
    <<" ", "THEN", " ">>, <<" ", "TO", " ">>, <<" ", "STEP", " ">>, <<" ", "DEF FN", " ">>,
    <<" ", "CAT", " ">>, <<" ", "FORMAT", " ">>, <<" ", "MOVE", " ">>, <<" ", "ERASE", " ">>,
    <<" ", "OPEN #">>, <<" ", "CLOSE #">>, <<" ", "MERGE", " ">>, <<" ", "VERIFY", " ">>,
    <<" ", "BEEP", " ">>, <<" ", "CIRCLE", " ">>, <<" ", "INK", " ">>, <<" ", "PAPER", " ">>,
    <<" ", "FLASH", " ">>, <<" ", "BRIGHT", " ">>, <<" ", "INVERSE", " ">>, <<" ", "OVER", " ">>,
    <<" ", "OUT", " ">>, <<" ", "LPRINT", " ">>, <<" ", "LLIST", " ">>, <<" ", "STOP", " ">>,
    <<" ", "READ", " ">>, <<" ", "DATA", " ">>, <<" ", "RESTORE", " ">>, <<" ", "NEW", " ">>,
    <<" ", "BORDER", " ">>, <<" ", "CONTINUE", " ">>, <<" ", "DIM", " ">>, <<" ", "REM", " ">>,
    <<" ", "FOR", " ">>, <<" ", "GO TO", " ">>, <<" ", "GO SUB", " ">>, <<" ", "INPUT", " ">>,
    <<" ", "LOAD", " ">>, <<" ", "LIST", " ">>, <<" ", "LET", " ">>, <<" ", "PAUSE", " ">>,
    <<" ", "NEXT", " ">>, <<" ", "POKE", " ">>, <<" ", "PRINT", " ">>, <<" ", "PLOT", " ">>,
    <<" ", "RUN", " ">>, <<" ", "SAVE", " ">>, <<" ", "RANDOMIZE", " ">>, <<" ", "IF", " ">>,
    <<" ", "CLS", " ">>, <<" ", "DRAW", " ">>, <<" ", "CLEAR", " ">>, <<" ", "RETURN", " ">>,
    <<" ", "COPY", " ">> >>

\* the character fprintf(file, "%c", byte) writes for 0x20 <= byte <= 0x7E
\* (a TLA+ string cannot hold the grave accent 0x60: it is written <grave>)
ASCII_CHARS == <<
    " ", "!", "\"", "#", "$", "%", "&", "'", "(", ")", "*", "+",
    ",", "-", ".", "/", "0", "1", "2", "3", "4", "5", "6", "7",
    "8", "9", ":", ";", "<", "=", ">", "?", "@", "A", "B", "C",
    "D", "E", "F", "G", "H", "I", "J", "K", "L", "M", "N", "O",
    "P", "Q", "R", "S", "T", "U", "V", "W", "X", "Y", "Z", "[",
    "\\", "]", "^", "_", "<grave>", "a", "b", "c", "d", "e", "f", "g",
    "h", "i", "j", "k", "l", "m", "n", "o", "p", "q", "r", "s",
    "t", "u", "v", "w", "x", "y", "z", "{", "|", "}", "~" >>

(***************************************************************************)
(* zxs_bas.h: zxs_fprint_basic_line                                        *)
(*                                                                         *)
(* The locals of a running call are the record line: base is the offset    *)
(* of its data argument in the payload, datasize its datasize argument,    *)
(* start the length of the output when the call began.  The file argument  *)
(* is an open stream (never NULL) in every call explored.                  *)
(***************************************************************************)
QUOTE == 34
REM   == 234

Last(sq) == sq[Len(sq)]

RECURSIVE Concat(_)
Concat(pieces) ==
    IF pieces = << >> THEN "" ELSE Head(pieces) \o Concat(Tail(pieces))

\* zxs_bas.h:66-72  the number of '%' in a format
RECURSIVE zxs_count_parameters(_)
zxs_count_parameters(str) ==
    IF str = << >> THEN 0
    ELSE (IF Head(str) = "%d" THEN 1 ELSE 0) + zxs_count_parameters(Tail(str))

\* fprintf(file, format, param1, param2): each %d takes the next argument
RECURSIVE Fprintf(_, _)
Fprintf(format, args) ==
    IF format = << >> THEN ""
    ELSE IF Head(format) = "%d"
         THEN ToString(Head(args)) \o Fprintf(Tail(format), Tail(args))
         ELSE Head(format) \o Fprintf(Tail(format), args)

\* zxs_bas.h:94-95  the locals at the start of a call
LineLocals(base, size, start) ==
    [ base |-> base, datasize |-> size, start |-> start, i |-> 0,
      last_char |-> 0, in_quotes |-> FALSE, in_rem |-> FALSE, err_code |-> 0 ]

\* zxs_bas.h:102-127  the branch of the if-chain a byte takes
ByteClassUdgToA5(byte, in_quotes) ==
    IF byte < 32 THEN "control"
    ELSE IF byte < 128 THEN "ascii"
    ELSE IF byte < 144 THEN "graph"
    ELSE IF byte < (IF in_quotes THEN 166 ELSE 163) THEN "udg"
    ELSE "keyword"
ByteClassOneBoundary(byte, in_quotes) ==
    IF byte < 32 THEN "control"
    ELSE IF byte < 128 THEN "ascii"
    ELSE IF byte < 144 THEN "graph"
    ELSE IF byte < 163 THEN "udg"
    ELSE "keyword"
ByteClass(byte, in_quotes) ==
    IF byte < 32 THEN "control"
    ELSE IF byte < 128 THEN "ascii"
    ELSE IF byte < 144 THEN "graph"
    ELSE IF byte < (IF in_quotes THEN 165 ELSE 163) THEN "udg"
    ELSE "keyword"

\* zxs_bas.h:128-129  the keyword, without its leading space after a space
KeywordOf(byte, last_char) ==
    LET keyword == ZXS_KEYWORDS[byte - ZXS_KEYWORDS_START + 1]
    IN  IF last_char = SPACE /\ Head(keyword) = " " THEN Tail(keyword) ELSE keyword

\* zxs_bas.h:110-111  the bytes skipped after a control code
ControlSkipNoArguments(byte) == IF byte = 14 THEN 5 ELSE 0
ControlSkipFourAfterMarker(byte) ==
    IF byte = 14 THEN 4 ELSE zxs_count_parameters(ZXS_CTRL_CHARS[byte + 1])
ControlSkip(byte) ==
    IF byte = 14 THEN 5 ELSE zxs_count_parameters(ZXS_CTRL_CHARS[byte + 1])

\* zxs_bas.h:139-141  in_quotes after the byte: a quote flips it outside a REM
QuotesAfterIgnoringRem(byte, in_quotes, in_rem) ==
    IF byte = QUOTE THEN ~in_quotes ELSE in_quotes
QuotesAfter(byte, in_quotes, in_rem) ==
    IF byte = QUOTE /\ ~in_rem THEN ~in_quotes ELSE in_quotes

\* zxs_bas.h:142-144  in_rem after the byte: the REM token sets it
RemAfter(byte, in_rem) == in_rem \/ byte = REM

\* zxs_bas.h:96-145  one iteration of the loop on the bytes d of the payload:
\* the locals after it, the text written to file, the highest offset read
LineIteration(l, d) ==
    LET i      == l.i
        byte   == d[l.base + i + 1]
        class  == ByteClass(byte, l.in_quotes)
        has1   == (i + 1) < l.datasize
        has2   == (i + 2) < l.datasize
        param1 == IF has1 THEN d[l.base + i + 2] ELSE 0
        param2 == IF has2 THEN d[l.base + i + 3] ELSE 0
        kw     == IF class = "keyword" THEN KeywordOf(byte, l.last_char) ELSE << >>
        text   == CASE class = "control" ->
                         Fprintf(ZXS_CTRL_CHARS[byte + 1], <<param1, param2>>)
                    [] class = "ascii" ->
                         IF byte = 127 THEN ZXS_COPYRIGHT_CHAR
                         ELSE ASCII_CHARS[byte - 32 + 1]
                    [] class = "graph" ->
                         ZXS_GRAPH_CHARS[byte - ZXS_GRAPH_CHARS_START + 1]
                    [] class = "udg" ->
                         ZXS_UDG_CHARS[byte - ZXS_UDG_CHARS_START + 1]
                    [] OTHER -> Concat(kw)
        skip   == IF class = "control" THEN ControlSkip(byte) ELSE 0
        last   == IF class = "keyword"
                  THEN (IF Last(kw) = " " THEN 1 ELSE 0)
                  ELSE byte
        top    == IF class = "control"
                  THEN (IF has2 THEN i + 2 ELSE IF has1 THEN i + 1 ELSE i)
                  ELSE i
    IN  [ locals |-> [l EXCEPT !.i = i + skip + 1,
                               !.last_char = last,
                               !.in_quotes = QuotesAfter(byte, l.in_quotes, l.in_rem),
                               !.in_rem = RemAfter(byte, l.in_rem)],
          text   |-> text,
          top    |-> l.base + top,
          byte   |-> byte,
          class  |-> class,
          skip   |-> skip,
          args   |-> <<param1, param2>> ]

\* the value of step before any iteration ran
NoStep ==
    [ taken |-> FALSE, before |-> LineLocals(0, 0, 0),
      after |-> LineLocals(0, 0, 0), byte |-> -1, class |-> "none",
      text |-> "", skip |-> 0, args |-> <<0, 0>> ]

\* zxs_bas.h:96  the loop condition
LineRunning(l) == l.i < l.datasize /\ l.err_code = 0

\* the text a whole call writes for the bytes of one line
RECURSIVE LineText(_, _)
LineText(l, d) ==
    IF LineRunning(l)
    THEN LineIteration(l, d).text \o LineText(LineIteration(l, d).locals, d)
    ELSE ""
DetokenizeLine(bytes) == LineText(LineLocals(0, Len(bytes), 0), bytes)

(***************************************************************************)
(* zxs_bas.h: zxs_fprint_basic_program                                     *)
(***************************************************************************)
SENTINEL == 16384

\* printf("%5d", line_number)
RECURSIVE Spaces(_)
Spaces(n) == IF n <= 0 THEN "" ELSE " " \o Spaces(n - 1)
Printf5d(n) == Spaces(5 - Len(ToString(n))) \o ToString(n)

\* zxs_bas.h:170  the line number of the record at offset off
LineNumberAtLittleEndian(d, off) == d[off + 2] * 256 + d[off + 1]
LineNumberAt(d, off) == GET_BE_WORD(d, off)

\* zxs_bas.h:171  the test that ends the program
IsSentinelAbove(line_number) == line_number > SENTINEL
IsSentinel(line_number) == line_number >= SENTINEL

\* zxs_bas.h:169-177  one pass over the head of a record, from the loop
\* condition to the call of zxs_fprint_basic_line: what it does ("return" with
\* a value, or "line" with the number printed), where it leaves data and
\* datasize, and the highest offset it read
RecordHeadPrintFirst(d, off, size) ==
    IF 2 > size
    THEN [ do |-> "return", value |-> 1, off |-> off, size |-> size,
           number |-> -1, length |-> 0, printed |-> "", top |-> -1 ]
    ELSE LET line_number == LineNumberAt(d, off)
         IN  IF IsSentinel(line_number)
             THEN [ do |-> "return", value |-> 0, off |-> off + 2,
                    size |-> size - 2, number |-> line_number, length |-> 0,
                    printed |-> Printf5d(line_number), top |-> off + 1 ]
             ELSE IF 2 > size - 2
             THEN [ do |-> "return", value |-> 1, off |-> off + 2,
                    size |-> size - 2, number |-> line_number, length |-> 0,
                    printed |-> Printf5d(line_number), top |-> off + 1 ]
             ELSE LET line_length == GET_LE_WORD(d, off + 2)
                  IN  IF line_length > size - 4
                      THEN [ do |-> "return", value |-> 1, off |-> off + 4,
                             size |-> size - 4, number |-> line_number,
                             length |-> line_length,
                             printed |-> Printf5d(line_number), top |-> off + 3 ]
                      ELSE [ do |-> "line", value |-> 0, off |-> off + 4,
                             size |-> size - 4, number |-> line_number,
                             length |-> line_length,
                             printed |-> Printf5d(line_number), top |-> off + 3 ]
RecordHead(d, off, size) ==
    IF 2 > size
    THEN [ do |-> "return", value |-> 1, off |-> off, size |-> size,
           number |-> -1, length |-> 0, printed |-> "", top |-> -1 ]
    ELSE LET line_number == LineNumberAt(d, off)
         IN  IF IsSentinel(line_number)
             THEN [ do |-> "return", value |-> 0, off |-> off + 2,
                    size |-> size - 2, number |-> line_number, length |-> 0,
                    printed |-> "", top |-> off + 1 ]
             ELSE IF 2 > size - 2
             THEN [ do |-> "return", value |-> 1, off |-> off + 2,
                    size |-> size - 2, number |-> line_number, length |-> 0,
                    printed |-> "", top |-> off + 1 ]
             ELSE LET line_length == GET_LE_WORD(d, off + 2)
                  IN  IF line_length > size - 4
                      THEN [ do |-> "return", value |-> 1, off |-> off + 4,
                             size |-> size - 4, number |-> line_number,
                             length |-> line_length, printed |-> "",
                             top |-> off + 3 ]
                      ELSE [ do |-> "line", value |-> 0, off |-> off + 4,
                             size |-> size - 4, number |-> line_number,
                             length |-> line_length,
                             printed |-> Printf5d(line_number), top |-> off + 3 ]

Max(a, b) == IF a > b THEN a ELSE b

\* zxs_bas.h:166,185  the loop condition fails: return err_code (0 here, the
\* loop is left by a return statement on every error)
ProgramEnd ==
    /\ pc = "loop"
    /\ ~(datasize > 0)
    /\ pc' = "done"
    /\ ret' = 0
    /\ head' = [ do |-> "end", at |-> dptr, size |-> datasize, number |-> -1,
                 length |-> 0, top |-> -1 ]
    /\ UNCHANGED <<data, dptr, datasize, line, file, stdout, emitted, maxread,
                   step>>
    /\ UNCHANGED <<tapVars, hdrVars, cliVars>>

ProgramRecordKeepFlags ==
    /\ pc = "loop"
    /\ datasize > 0
    /\ LET h == RecordHead(data, dptr, datasize)
       IN  /\ dptr' = h.off
           /\ datasize' = h.size
           /\ stdout' = stdout \o h.printed
           /\ maxread' = Max(maxread, h.top)
           /\ head' = [ do |-> h.do, at |-> dptr, size |-> datasize,
                        number |-> h.number, length |-> h.length, top |-> h.top ]
           /\ IF h.do = "return"
              THEN /\ pc' = "done"
                   /\ ret' = h.value
                   /\ UNCHANGED <<line, emitted>>
              ELSE /\ pc' = "line"
                   /\ line' = [LineLocals(h.off, h.length, Len(file)) EXCEPT
                                !.last_char = line.last_char,
                                !.in_quotes = line.in_quotes,
                                !.in_rem = line.in_rem]
                   /\ emitted' = Append(emitted,
                          [ number |-> h.number, at |-> h.off,
                            length |-> h.length, text |-> "" ])
                   /\ UNCHANGED ret
    /\ UNCHANGED <<data, file, step>>
    /\ UNCHANGED <<tapVars, hdrVars, cliVars>>

\* zxs_bas.h:166-178  the head of one record
ProgramRecord ==
    /\ pc = "loop"
    /\ datasize > 0
    /\ LET h == RecordHead(data, dptr, datasize)
       IN  /\ dptr' = h.off
           /\ datasize' = h.size
           /\ stdout' = stdout \o h.printed
           /\ maxread' = Max(maxread, h.top)
           /\ head' = [ do |-> h.do, at |-> dptr, size |-> datasize,
                        number |-> h.number, length |-> h.length, top |-> h.top ]
           /\ IF h.do = "return"
              THEN /\ pc' = "done"
                   /\ ret' = h.value
                   /\ UNCHANGED <<line, emitted>>
              ELSE /\ pc' = "line"
                   /\ line' = LineLocals(h.off, h.length, Len(file))
                   /\ emitted' = Append(emitted,
                          [ number |-> h.number, at |-> h.off,
                            length |-> h.length, text |-> "" ])
                   /\ UNCHANGED ret
    /\ UNCHANGED <<data, file, step>>
    /\ UNCHANGED <<tapVars, hdrVars, cliVars>>

\* zxs_bas.h:96-145  one iteration of zxs_fprint_basic_line
LineStep ==
    /\ pc = "line"
    /\ LineRunning(line)
    /\ LET r == LineIteration(line, data)
       IN  /\ line' = r.locals
           /\ file' = file \o r.text
           /\ maxread' = Max(maxread, r.top)
           /\ emitted' = [emitted EXCEPT ![Len(emitted)].text = @ \o r.text]
           /\ step' = [ taken |-> TRUE, before |-> line, after |-> r.locals,
                        byte |-> r.byte, class |-> r.class, text |-> r.text,
                        skip |-> r.skip, args |-> r.args ]
    /\ UNCHANGED <<data, dptr, datasize, pc, stdout, ret, head>>
    /\ UNCHANGED <<tapVars, hdrVars, cliVars>>

LineReturnAtIndex ==
    /\ pc = "line"
    /\ ~LineRunning(line)
    /\ IF line.err_code # 0
       THEN /\ pc' = "done"
            /\ ret' = line.err_code
            /\ UNCHANGED <<dptr, datasize>>
       ELSE /\ pc' = "loop"
            /\ dptr' = dptr + line.i
            /\ datasize' = datasize - line.i
            /\ UNCHANGED ret
    /\ UNCHANGED <<data, line, file, stdout, emitted, maxread, head, step>>
    /\ UNCHANGED <<tapVars, hdrVars, cliVars>>

\* zxs_bas.h:146,179-183  zxs_fprint_basic_line returns err_code; the program
\* returns it when it is not 0, else steps over the line
LineReturn ==
    /\ pc = "line"
    /\ ~LineRunning(line)
    /\ IF line.err_code # 0
       THEN /\ pc' = "done"
            /\ ret' = line.err_code
            /\ UNCHANGED <<dptr, datasize>>
       ELSE /\ pc' = "loop"
            /\ dptr' = dptr + line.datasize
            /\ datasize' = datasize - line.datasize
            /\ UNCHANGED ret
    /\ UNCHANGED <<data, line, file, stdout, emitted, maxread, head, step>>
    /\ UNCHANGED <<tapVars, hdrVars, cliVars>>

\* The payloads explored: every byte string over RawBytes up to MaxRawLen
\* bytes, and every prefix of up to MaxRecords records and end markers put one
\* after the other, so that a payload may stop anywhere inside a record.
\* The lines hold a letter, the PRINT keyword, the INK control code with and
\* without its argument, the number marker 0x0E and a quoted keyword byte.
RawBytes     == {0, 1, 64}
LineNumbers  == {<<0, 1>>, <<1, 0>>}
EndMarkers   == {<<64, 0>>, <<128, 1>>}
LineContents == { << >>, <<65>>, <<16>>, <<14>>, <<16, 7>>, <<245, 65>>,
                  <<34, 163, 34>> }

Records ==
    { n \o <<Len(c), 0>> \o c : n \in LineNumbers, c \in LineContents }

RECURSIVE Programs(_)
Programs(n) ==
    IF n = 0 THEN {<< >>}
    ELSE LET shorter == Programs(n - 1)
         IN  shorter \cup {p \o r : p \in shorter, r \in Records \cup EndMarkers}

ProgramInputs ==
    SeqsUpTo(RawBytes, MaxRawLen)
    \cup UNION { {SubSeq(p, 1, n) : n \in 0..Len(p)} : p \in Programs(MaxRecords) }

InitBas ==
    /\ data \in ProgramInputs
    /\ dptr = 0
    /\ datasize = Len(data)
    /\ pc = "loop"
    /\ line = LineLocals(0, 0, 0)
    /\ file = ""
    /\ stdout = ""
    /\ emitted = << >>
    /\ ret = -1
    /\ maxread = -1
    /\ head = [ do |-> "none", at |-> 0, size |-> 0, number |-> -1,
                length |-> 0, top |-> -1 ]
    /\ step = NoStep
    /\ TapIdle
    /\ HdrIdle
    /\ CliIdle

NextBas == ProgramEnd \/ ProgramRecord \/ LineStep \/ LineReturn

SpecBas == InitBas /\ [][NextBas]_vars

(***************************************************************************)
(* zxs_bas.h: zxs_fprint_basic_program on a payload of one line, numbered   *)
(* 10, over a wider choice of line bytes.                                   *)
(***************************************************************************)
MaxLineLen == 3     \* longest line of arbitrary LineBytes explored

\* a control code without arguments, the number marker, control codes with
\* one and two arguments, the space, the quote, a letter, the two bytes that
\* are a UDG or a keyword, a keyword without spaces, THEN, REM and PRINT
LineBytes == {14, 16, 22, 32, 34, 65, 163, 164, 165, 203, 234, 245}
AllBytes  == 0..255

\* PRINT "HI"; INK 7 and a letter; AT with a quote and a REM byte as arguments
NamedLines ==
    { <<245, 34, 72, 73, 34>>, <<16, 7, 65>>, <<22, 34, 234, 34>>,
      <<34, 16, 34, 34>>, <<16, 234, 34>> }

\* every byte in every state of in_quotes and in_rem, last or followed by text
StatePrefixes == { << >>, <<34>>, <<234>>, <<34, 234>> }
ByteLines ==
    { p \o <<b>> \o s : p \in StatePrefixes, b \in AllBytes,
                        s \in { << >>, <<65, 66, 67>> } }

\* the number marker 0x0E with the five bytes of a number after it
NumberArgs ==
    { <<0, 0, 10, 0, 0>>, <<34, 234, 32, 203, 14>>, <<234, 34, 16, 22, 245>> }
NumberLines ==
    { p \o <<14>> \o a \o s :
          p \in StatePrefixes \cup { <<32>>, <<203>> },
          a \in NumberArgs,
          s \in { << >>, <<34>>, <<65>>, <<245>> } }

LineInputs ==
    SeqsUpTo(LineBytes, MaxLineLen) \cup NamedLines \cup ByteLines
    \cup NumberLines

\* the record of line 10 holding the bytes c
LineRecord(c) == <<0, 10, Len(c), 0>> \o c

InitLine ==
    /\ data \in { LineRecord(c) : c \in LineInputs }
    /\ dptr = 0
    /\ datasize = Len(data)
    /\ pc = "loop"
    /\ line = LineLocals(0, 0, 0)
    /\ file = ""
    /\ stdout = ""
    /\ emitted = << >>
    /\ ret = -1
    /\ maxread = -1
    /\ head = [ do |-> "none", at |-> 0, size |-> 0, number |-> -1,
                length |-> 0, top |-> -1 ]
    /\ step = NoStep
    /\ TapIdle
    /\ HdrIdle
    /\ CliIdle

SpecLine == InitLine /\ [][NextBas]_vars

(***************************************************************************)
(* zxs_bas.h: zxs_fprint_basic_program on a payload of two lines, the      *)
(* first of which leaves the line printer's flags set when it ends.        *)
(***************************************************************************)
\* an open quote, REM, PRINT (ends in a space), a space, a quote inside a
\* REM, a letter
FirstLines ==
    { <<34>>, <<234>>, <<245>>, <<32>>, <<234, 34>>, <<34, 65>>, <<65>> }

\* the byte that is a UDG inside quotes and a keyword outside, PRINT (starts
\* with a space), a quoted UDG byte, a quote and a keyword, THEN after a
\* letter, an empty line
SecondLines ==
    { <<163>>, <<245, 65>>, <<34, 164, 34>>, <<34, 163>>, <<65, 203>>, << >> }

PairInputs ==
    { <<0, 10, Len(a), 0>> \o a \o <<0, 20, Len(b), 0>> \o b :
          a \in FirstLines, b \in SecondLines }

InitPair ==
    /\ data \in PairInputs
    /\ dptr = 0
    /\ datasize = Len(data)
    /\ pc = "loop"
    /\ line = LineLocals(0, 0, 0)
    /\ file = ""
    /\ stdout = ""
    /\ emitted = << >>
    /\ ret = -1
    /\ maxread = -1
    /\ head = [ do |-> "none", at |-> 0, size |-> 0, number |-> -1,
                length |-> 0, top |-> -1 ]
    /\ step = NoStep
    /\ TapIdle
    /\ HdrIdle
    /\ CliIdle

SpecPair == InitPair /\ [][NextBas]_vars

(***************************************************************************)
(* fmt_hex.h: fprint_hex_data and its helpers                               *)
(***************************************************************************)
HEX_MAX_BYTECOUNT == 16     \* _HEX_MAX_BYTECOUNT
HEX_MAX_ADDRESS   == 65535

HexDigits == <<"0", "1", "2", "3", "4", "5", "6", "7",
               "8", "9", "A", "B", "C", "D", "E", "F">>

\* fprintf("%0<width>X", n): at least width digits, more when n needs them
RECURSIVE HexN(_, _)
HexN(n, width) ==
    IF n < 16 /\ width <= 1 THEN HexDigits[n + 1]
    ELSE HexN(n \div 16, width - 1) \o HexDigits[(n % 16) + 1]

RECURSIVE HexBytes(_)
HexBytes(d) == IF d = << >> THEN "" ELSE HexN(Head(d), 2) \o HexBytes(Tail(d))

RECURSIVE SumBytes(_)
SumBytes(d) == IF d = << >> THEN 0 ELSE Head(d) + SumBytes(Tail(d))

\* fmt_hex.h:32  the assertion _hex_checksum makes on its address
AssertAddress(address) == 0 <= address /\ address <= HEX_MAX_ADDRESS

\* fmt_hex.h:36-41  _hex_checksum: (-sum) & 0xFF
HexChecksum(reg_type, address, d) ==
    LET sum == (Len(d) % 256) + ((address \div 256) % 256) + (address % 256)
               + (reg_type % 256) + SumBytes(d)
    IN  (256 - (sum % 256)) % 256

\* fmt_hex.h:58-59  _hex_fprint_data_record up to its call of _hex_checksum
HexRecordStart(address, d) ==
    ":" \o HexN(Len(d), 2) \o HexN(address, 4) \o HexN(0, 2) \o HexBytes(d)

\* fmt_hex.h:58-60,99  the whole record and the newline after it
HexRecordText(address, d) ==
    HexRecordStart(address, d) \o HexN(HexChecksum(0, address, d), 2) \o "\n"

\* fmt_hex.h:96-98  the record of the iteration at offset i: its address and
\* its bytes
HexChunk(address, d, i) ==
    [ address |-> address + i,
      data    |-> SubSeq(d, i + 1, i + Min(Len(d) - i, HEX_MAX_BYTECOUNT)) ]

\* fmt_hex.h:95-100  the records of a whole call, from offset i on
RECURSIVE HexChunks(_, _, _)
HexChunks(address, d, i) ==
    IF i < Len(d)
    THEN <<HexChunk(address, d, i)>> \o HexChunks(address, d, i + HEX_MAX_BYTECOUNT)
    ELSE << >>

RECURSIVE HexText(_)
HexText(chunks) ==
    IF chunks = << >> THEN ""
    ELSE HexRecordText(Head(chunks).address, Head(chunks).data)
         \o HexText(Tail(chunks))

\* the locals of a fprint_hex_data call, what it wrote to ofile, the records
\* it started and where it is: in its loop, returned, or stopped by assert()
HexLocals(address, d) ==
    [ address |-> address, data |-> d, i |-> 0, ofile |-> "",
      records |-> << >>, pc |-> "loop", ret |-> -1 ]

\* fmt_hex.h:95-100  one iteration of the loop.  assert() stops the program
\* in a build without NDEBUG and is compiled out in a build with it.
HexRecord ==
    /\ hex # NULL
    /\ hex.pc = "loop"
    /\ hex.i < Len(hex.data)
    /\ LET r == HexChunk(hex.address, hex.data, hex.i)
       IN  \E asserts \in BOOLEAN :
           IF asserts /\ ~AssertAddress(r.address)
           THEN hex' = [hex EXCEPT
                    !.ofile = @ \o HexRecordStart(r.address, r.data),
                    !.records = Append(@, r),
                    !.pc = "aborted"]
           ELSE hex' = [hex EXCEPT
                    !.ofile = @ \o HexRecordText(r.address, r.data),
                    !.records = Append(@, r),
                    !.i = @ + HEX_MAX_BYTECOUNT]
    /\ UNCHANGED <<tapVars, hdrVars, basVars, cli>>

\* fmt_hex.h:95,101  the loop ends: return 0
HexReturn ==
    /\ hex # NULL
    /\ hex.pc = "loop"
    /\ ~(hex.i < Len(hex.data))
    /\ hex' = [hex EXCEPT !.pc = "done", !.ret = 0]
    /\ UNCHANGED <<tapVars, hdrVars, basVars, cli>>

\* The calls explored: load addresses at both ends of the 16-bit range and
\* in the middle, data of every size up to MaxHexSize, filled with one of two
\* patterns.
MaxHexSize == 33

HexAddresses == {0, 1, 32768, 65503, 65519, 65520, 65535}
HexData(n, m) == [k \in 1..n |-> (m * k) % 256]

InitHex ==
    /\ hex \in { HexLocals(a, HexData(n, m)) :
                    a \in HexAddresses, n \in 0..MaxHexSize, m \in {1, 85} }
    /\ cli = NULL
    /\ TapIdle
    /\ HdrIdle
    /\ BasIdle

NextHex == HexRecord \/ HexReturn

SpecHex == InitHex /\ [][NextHex]_vars

(***************************************************************************)
(* src/unnamed/part_002 (the command-line tool): the sub-commands that list *)
(* the blocks of a tape (fprint_block_list), print its first BASIC program  *)
(* (fprint_zx_basic_program), print the block selected by index             *)
(* (fprint_any_zx_block) and extract every block to a file                  *)
(* (extract_all_zx_blocks, extract_zx_block), with find_zx_tap_header and   *)
(* fprint_zx_tap_data under them.  Every read of the tape is a              *)
(* zxs_read_tap_block call.  Line numbers below are those of part_002.      *)
(***************************************************************************)
FIRST_HEADER_INDEX   == 1
ZXS_DATATYPE_ANY     == 255
ZXS_DATATYPE_BASIC   == 0
ZXS_DATATYPE_NUMBERS == 1
ZXS_DATATYPE_STRINGS == 2
ZXS_DATATYPE_CODE    == 3

\* part_002:249-258  found after a header was parsed: the name decides first,
\* then the index, and the type only when neither was given
FoundAtAnyHeader(found, h, header_index, name, index, type) == TRUE
FoundAfterDualMatch(found, h, header_index, name, index, type) ==
    LET byName  == IF ~found /\ name # NULL
                   THEN CString(h.filename) = name ELSE found
        byIndex == IF ~byName /\ index >= 0
                   THEN header_index = index \/ (header_index + 1) = index
                   ELSE byName
    IN  IF name = NULL /\ index < 0
        THEN (IF type = ZXS_DATATYPE_ANY THEN TRUE ELSE h.datatype = type)
        ELSE byIndex
FoundAfter(found, h, header_index, name, index, type) ==
    LET byName  == IF ~found /\ name # NULL
                   THEN CString(h.filename) = name ELSE found
        byIndex == IF ~byName /\ index >= 0
                   THEN header_index = index ELSE byName
    IN  IF name = NULL /\ index < 0
        THEN (IF type = ZXS_DATATYPE_ANY THEN TRUE ELSE h.datatype = type)
        ELSE byIndex

\* the locals of a sub-command before its loop: header is the caller's
\* ZXSHeader (nothing stored yet), rows what was printed, result the value
\* returned (-1: still running), matched the number of blocks read when the
\* header was found, err_code the local of extract_all_zx_blocks, out the
\* output file open in extract_zx_block, outputs the files closed so far
CliLocals(cmd, name, index, type) ==
    [ cmd |-> cmd,
      pc |-> IF cmd = "list" THEN "list"
             ELSE IF cmd = "extract" THEN "extract" ELSE "find",
      name |-> name, index |-> index, type |-> type,
      header_index |-> FIRST_HEADER_INDEX, block_index |-> 0,
      is_block_valid |-> TRUE, found |-> FALSE, header |-> NULL,
      rows |-> << >>, matched |-> 0, result |-> -1,
      err_code |-> 0, out |-> NULL, outputs |-> << >> ]

\* part_002:347-363  the row printed for a block
HeaderRow(header_index, h) ==
    [ kind |-> "header", index |-> header_index,
      filename |-> CString(h.filename), type |-> DatatypeName(h.datatype),
      length |-> h.length, param1 |-> h.param1, param2 |-> h.param2 ]
DataRow(block_index, b) ==
    [ kind |-> "data", index |-> block_index, datasize |-> b.datasize ]

\* part_002:341-366  one iteration of the loop of fprint_block_list
ListStep ==
    /\ cli # NULL
    /\ cli.pc = "list"
    /\ cli.is_block_valid
    /\ zxs_read_tap_block
    /\ LET b == call'.ret
       IN  IF b = NULL
           THEN cli' = [cli EXCEPT !.is_block_valid = FALSE]
           ELSE IF IsHeaderBlock(b)
           THEN cli' = [cli EXCEPT
                    !.header = ParsedHeader(b),
                    !.rows = Append(@, HeaderRow(cli.header_index, ParsedHeader(b))),
                    !.header_index = @ + 1,
                    !.block_index = 0]
           ELSE cli' = [cli EXCEPT !.rows = Append(@, DataRow(cli.block_index, b))]
    /\ UNCHANGED <<tape, hex>>
    /\ UNCHANGED <<hdrVars, basVars>>

\* part_002:341,368-369  the loop ends: return err_code, which is still 0
ListReturn ==
    /\ cli # NULL
    /\ cli.pc = "list"
    /\ ~cli.is_block_valid
    /\ cli' = [cli EXCEPT !.pc = "done", !.result = 0]
    /\ UNCHANGED <<tapVars, hdrVars, basVars, hex>>

\* part_002:244-260  one iteration of the loop of find_zx_tap_header
FindStep ==
    /\ cli # NULL
    /\ cli.pc = "find"
    /\ cli.is_block_valid /\ ~cli.found
    /\ zxs_read_tap_block
    /\ LET b == call'.ret
       IN  IF b = NULL
           THEN cli' = [cli EXCEPT !.is_block_valid = FALSE]
           ELSE IF IsHeaderBlock(b)
           THEN cli' = [cli EXCEPT
                    !.header = ParsedHeader(b),
                    !.found = FoundAfter(cli.found, ParsedHeader(b),
                                         cli.header_index, cli.name, cli.index,
                                         cli.type),
                    !.matched = Len(reads'),
                    !.header_index = @ + 1]
           ELSE UNCHANGED cli
    /\ UNCHANGED <<tape, hex>>
    /\ UNCHANGED <<hdrVars, basVars>>

\* part_002:261,391-400,455-462  find_zx_tap_header returns found.  The
\* BASIC sub-command returns 1 when nothing was found or the header found is
\* not a BASIC one, else goes on to fprint_zx_tap_data; the print sub-command
\* goes on to fprint_zx_tap_data when a header was found and else returns 1
\* when a name or an index was given
FindReturn ==
    /\ cli # NULL
    /\ cli.pc = "find"
    /\ ~(cli.is_block_valid /\ ~cli.found)
    /\ IF cli.cmd = "print"
       THEN IF cli.found
            THEN cli' = [cli EXCEPT !.pc = "data"]
            ELSE cli' = [cli EXCEPT !.pc = "done",
                            !.result = IF cli.name # NULL \/ cli.index >= 0
                                       THEN 1 ELSE 0]
       ELSE IF ~cli.found
       THEN cli' = [cli EXCEPT !.pc = "done", !.result = 1]
       ELSE IF cli.header.datatype # ZXS_DATATYPE_BASIC
       THEN cli' = [cli EXCEPT !.pc = "done", !.result = 1]
       ELSE cli' = [cli EXCEPT !.pc = "data"]
    /\ UNCHANGED <<tapVars, hdrVars, basVars, hex>>

\* what zxs_fprint_basic_program starts from, given a block's payload
StartProgram(b) ==
    /\ data' = b.data
    /\ dptr' = 0
    /\ datasize' = b.datasize
    /\ pc' = "loop"
    /\ line' = LineLocals(0, 0, 0)
    /\ head' = [ do |-> "none", at |-> 0, size |-> 0, number |-> -1,
                 length |-> 0, top |-> -1 ]
    /\ step' = NoStep
    /\ UNCHANGED <<file, stdout, emitted, ret, maxread>>

\* part_002:312-313 and the caller's use of the value fprint_zx_tap_data
\* returns.  The basic and print sub-commands return it (part_002:400-401,
\* 457,463).  extract_zx_block closes the output file, which now holds text,
\* and returns the value to the loop of extract_all_zx_blocks, where it
\* becomes err_code and header_index is incremented (part_002:488-491,
\* 522-524).
Finish(c, e, text) ==
    IF c.cmd = "extract"
    THEN [c EXCEPT !.pc = "extract",
                   !.err_code = e,
                   !.outputs = Append(@, [ name |-> c.out.name, ext |-> c.out.ext,
                                           index |-> c.out.index,
                                           block |-> c.matched,
                                           text |-> text, err |-> e ]),
                   !.out = NULL,
                   !.header_index = @ + 1]
    ELSE [c EXCEPT !.pc = "done", !.result = e]

\* part_002:277-310  fprint_zx_tap_data up to its call of
\* zxs_fprint_basic_program or fprint_hex_data: the next block is read and
\* its payload is handed to the detokenizer for a BASIC header and to the
\* Intel HEX printer for a CODE header.  The other datatypes end here with 1.
DataStep ==
    /\ cli # NULL
    /\ cli.pc = "data"
    /\ zxs_read_tap_block
    /\ LET b == call'.ret
       IN  IF cli.header.datatype = ZXS_DATATYPE_BASIC
           THEN IF b = NULL
                THEN /\ cli' = Finish(cli, 1, file)
                     /\ UNCHANGED <<basVars, hex>>
                ELSE /\ cli' = [cli EXCEPT !.pc = "program"]
                     /\ StartProgram(b)
                     /\ UNCHANGED hex
           ELSE IF cli.header.datatype = ZXS_DATATYPE_CODE /\ b # NULL
           THEN /\ cli' = [cli EXCEPT !.pc = "hex"]
                /\ hex' = HexLocals(cli.header.param1, b.data)
                /\ UNCHANGED basVars
           ELSE /\ cli' = Finish(cli, 1, file)
                /\ UNCHANGED <<basVars, hex>>
    /\ UNCHANGED tape
    /\ UNCHANGED hdrVars

\* part_002:288-289,312-313  zxs_fprint_basic_program returned:
\* err_code = !err_code && (its value), which is 0 or 1
ProgramReturn ==
    /\ cli # NULL
    /\ cli.pc = "program"
    /\ pc = "done"
    /\ cli' = Finish(cli, IF ret # 0 THEN 1 ELSE 0, file)
    /\ UNCHANGED <<tapVars, hdrVars, basVars, hex>>

\* part_002:304,312-313  fprint_hex_data returned: what it wrote is in the
\* output stream and its value is the value of fprint_zx_tap_data
HexDataReturn ==
    /\ cli # NULL
    /\ cli.pc = "hex"
    /\ hex # NULL
    /\ hex.pc = "done"
    /\ file' = file \o hex.ofile
    /\ cli' = Finish(cli, hex.ret, file')
    /\ UNCHANGED <<data, dptr, datasize, pc, line, stdout, emitted, ret, maxread,
                   head, step>>
    /\ UNCHANGED <<tapVars, hdrVars, hex>>

\* part_002:516-519  found in the loop of extract_all_zx_blocks
ExtractFound(h, header_index, name, index) ==
    LET byName  == name # NULL /\ CString(h.filename) = name
        byIndex == IF ~byName /\ index >= 0 THEN header_index = index ELSE byName
    IN  IF name = NULL /\ index < 0 THEN TRUE ELSE byIndex

\* part_002:472-479  the extension of the output file
OutputExt(datatype) ==
    IF datatype = ZXS_DATATYPE_BASIC THEN ".bas"
    ELSE IF datatype = ZXS_DATATYPE_CODE THEN ".hex"
    ELSE ".txt"

\* part_002:523  the name of the output file ("data" as character codes)
OutputName(h) ==
    IF Len(CString(h.filename)) > 0 THEN CString(h.filename)
    ELSE <<100, 97, 116, 97>>

\* part_002:509  the condition of the loop of extract_all_zx_blocks
ExtractLoopingAfterFailedRead(c) == c.err_code = 0
ExtractLooping(c) == c.is_block_valid /\ c.err_code = 0

\* part_002:509-527,480-488  one iteration of the loop of
\* extract_all_zx_blocks up to the call of fprint_zx_tap_data: a header that
\* is found has its output file opened, empty, by extract_zx_block.  The
\* directory and the file are taken to be created without error.
ExtractStep ==
    /\ cli # NULL
    /\ cli.pc = "extract"
    /\ ExtractLooping(cli)
    /\ zxs_read_tap_block
    /\ LET b == call'.ret
       IN  IF b = NULL
           THEN /\ cli' = [cli EXCEPT !.is_block_valid = FALSE]
                /\ UNCHANGED file
           ELSE IF IsHeaderBlock(b)
           THEN LET h == ParsedHeader(b)
                IN  IF ExtractFound(h, cli.header_index, cli.name, cli.index)
                    THEN /\ cli' = [cli EXCEPT
                                !.header = h,
                                !.pc = "data",
                                !.matched = Len(reads'),
                                !.out = [ name |-> OutputName(h),
                                          ext |-> OutputExt(h.datatype),
                                          index |-> cli.header_index ]]
                         /\ file' = ""
                    ELSE /\ cli' = [cli EXCEPT !.header = h,
                                                !.header_index = @ + 1]
                         /\ UNCHANGED file
           ELSE UNCHANGED <<cli, file>>
    /\ UNCHANGED <<data, dptr, datasize, pc, line, stdout, emitted, ret, maxread,
                   head, step>>
    /\ UNCHANGED <<tape, hex>>
    /\ UNCHANGED hdrVars

\* part_002:509,529-530  the loop ends: return err_code
ExtractReturn ==
    /\ cli # NULL
    /\ cli.pc = "extract"
    /\ ~ExtractLooping(cli)
    /\ cli' = [cli EXCEPT !.pc = "done", !.result = cli.err_code]
    /\ UNCHANGED <<tapVars, hdrVars, basVars, hex>>

\* The tapes explored: up to MaxBlocks blocks, each a BASIC header, a CODE
\* header or one of two data blocks holding a one-line program, followed by
\* nothing or by the start of one more block: one byte of its length, its
\* whole length prefix, or the prefix with the tag and part of the payload.
MaxBlocks == 4

TapBlock(tag, payload) ==
    <<(Len(payload) + 2) % 256, (Len(payload) + 2) \div 256, tag>>
    \o payload \o <<0>>

HeaderPayload(datatype, letter) ==
    <<datatype, letter>> \o [i \in 1..9 |-> SPACE] \o <<5, 0, 10, 0, 5, 0>>

TapeBlocks ==
    { TapBlock(ZXS_BLKTYPE_HEADER, HeaderPayload(ZXS_DATATYPE_BASIC, 65)),
      TapBlock(ZXS_BLKTYPE_HEADER, HeaderPayload(ZXS_DATATYPE_CODE, 67)),
      TapBlock(ZXS_BLKTYPE_DATA, <<0, 10, 1, 0, 65>>),
      TapBlock(ZXS_BLKTYPE_DATA, <<0, 20, 1, 0, 245>>) }

TapeTails == { << >>, <<19>>, <<19, 0>>, <<19, 0, 0, 0, 65>> }

RECURSIVE Tapes(_)
Tapes(n) ==
    IF n = 0 THEN {<< >>}
    ELSE LET shorter == Tapes(n - 1)
         IN  shorter \cup {t \o b : t \in shorter, b \in TapeBlocks}

InitCli ==
    /\ tape \in { t \o e : t \in Tapes(MaxBlocks), e \in TapeTails }
    /\ fpos = 0
    /\ call = NoCall
    /\ reads = << >>
    /\ outcomes = {}
    /\ cli \in { CliLocals("list", NULL, -1, ZXS_DATATYPE_ANY),
                 CliLocals("basic", NULL, -1, ZXS_DATATYPE_BASIC) }
    /\ hex = NULL
    /\ HdrIdle
    /\ BasIdle

NextCli ==
    \/ ListStep \/ ListReturn
    \/ FindStep \/ FindReturn \/ DataStep \/ ProgramReturn
    \/ ProgramEnd \/ ProgramRecord \/ LineStep \/ LineReturn

SpecCli == InitCli /\ [][NextCli]_vars

(***************************************************************************)
(* The list, print and extract sub-commands on tapes of up to MaxSelBlocks *)
(* blocks: BASIC, CODE and number-array headers and a data block holding   *)
(* an empty line 10 and a line 20 with the letter A, followed by nothing   *)
(* or by the length prefix of a block that is not there.                   *)
(* main calls fprint_any_zx_block with the index given by -p (part_002:    *)
(* 596-599,647) and extract_all_zx_blocks with no name and index -1        *)
(* (part_002:656).                                                         *)
(***************************************************************************)
MaxSelBlocks == 4

SelBlocks ==
    { TapBlock(ZXS_BLKTYPE_HEADER, HeaderPayload(ZXS_DATATYPE_BASIC, 65)),
      TapBlock(ZXS_BLKTYPE_HEADER, HeaderPayload(ZXS_DATATYPE_CODE, 67)),
      TapBlock(ZXS_BLKTYPE_HEADER, HeaderPayload(ZXS_DATATYPE_NUMBERS, 78)),
      TapBlock(ZXS_BLKTYPE_DATA, <<0, 10, 0, 0, 0, 20, 1, 0, 65>>) }

SelTails == { << >>, <<19, 0>> }

RECURSIVE SelTapes(_)
SelTapes(n) ==
    IF n = 0 THEN {<< >>}
    ELSE LET shorter == SelTapes(n - 1)
         IN  shorter \cup {t \o b : t \in shorter, b \in SelBlocks}

SelIndexes == {1, 2}

SelInit(blocks) ==
    /\ tape \in { t \o e : t \in SelTapes(blocks), e \in SelTails }
    /\ fpos = 0
    /\ call = NoCall
    /\ reads = << >>
    /\ outcomes = {}
    /\ cli \in { CliLocals("list", NULL, -1, ZXS_DATATYPE_ANY),
                 CliLocals("extract", NULL, -1, ZXS_DATATYPE_ANY) }
             \cup { CliLocals("print", NULL, n, ZXS_DATATYPE_ANY) :
                       n \in SelIndexes }
    /\ hex = NULL
    /\ HdrIdle
    /\ BasIdle

InitSel == SelInit(MaxSelBlocks)

NextSel ==
    \/ ListStep \/ ListReturn
    \/ FindStep \/ FindReturn \/ DataStep \/ ProgramReturn
    \/ HexRecord \/ HexReturn \/ HexDataReturn
    \/ ExtractStep \/ ExtractReturn
    \/ ProgramEnd \/ ProgramRecord \/ LineStep \/ LineReturn

SpecSel == InitSel /\ [][NextSel]_vars

\* The same sub-commands run to their end, on tapes of up to MaxRunBlocks
\* blocks: a step that can be taken is taken in the end (the program runs).
MaxRunBlocks == 3

InitRun == SelInit(MaxRunBlocks)

FairRun == InitRun /\ [][NextSel]_vars /\ WF_vars(NextSel)

(***************************************************************************)
(* The TAP container layout, as a writer produces it: each block is its    *)
(* length L = payload + 2 (little-endian), the tag, the payload and the    *)
(* checksum.                                                               *)
(***************************************************************************)
RECURSIVE WellFormed(_)
WellFormed(s) ==
    \/ s = << >>
    \/ /\ Len(s) >= 2
       /\ s[1] + 256 * s[2] >= 2
       /\ Len(s) >= s[1] + 256 * s[2] + 2
       /\ WellFormed(SubSeq(s, s[1] + 256 * s[2] + 3, Len(s)))

RECURSIVE TapLayout(_)
TapLayout(s) ==
    IF s = << >> THEN << >>
    ELSE LET L == s[1] + 256 * s[2]
         IN  << [type |-> s[3], data |-> SubSeq(s, 4, L + 1), checksum |-> s[L + 2]] >>
             \o TapLayout(SubSeq(s, L + 3, Len(s)))

\* C1: on a stream that is a concatenation of well-formed blocks, the k-th
\* successful read returns the tag, the payload and the checksum of the k-th
\* block, and the byte ranges of consecutive reads are adjacent, starting at 0.
C1_RoundTrip ==
    WellFormed(tape) =>
        /\ Len(reads) <= Len(TapLayout(tape))
        /\ \A k \in 1..Len(reads) :
              /\ reads[k].block.type = TapLayout(tape)[k].type
              /\ reads[k].block.data = TapLayout(tape)[k].data
              /\ reads[k].block.datasize = Len(TapLayout(tape)[k].data)
              /\ reads[k].block.checksum = TapLayout(tape)[k].checksum
              /\ reads[k].start = (IF k = 1 THEN 0 ELSE reads[k - 1].end)

\* two blocks with a payload were read back from a well-formed stream
C1_Witness ==
    /\ WellFormed(tape)
    /\ Len(reads) = 2
    /\ reads[2].block.datasize = 1
    /\ reads[2].block.type # reads[2].block.checksum
    /\ reads[2].block.data[1] # reads[2].block.checksum

\* C2 (as stated): a successful call advances the position by 2 + (L-2) + 1.
C2_AdvanceAsStated ==
    (call.made /\ call.ret # NULL) =>
        fpos - call.start = 2 + (call.block_length - 2) + 1

\* C2 (amended): a successful call advances the position by the 2 length
\* bytes, the tag byte, the L-2 payload bytes and the checksum byte:
\* 2 + 1 + (L-2) + 1 = L + 2.
C2_Advance ==
    (call.made /\ call.ret # NULL) =>
        fpos - call.start = 2 + 1 + (call.block_length - 2) + 1

C2_Witness ==
    /\ call.made /\ call.ret # NULL
    /\ call.block_length = 3
    /\ Len(reads) = 2

\* C3: a read that fails after the length prefix was read (truncated block)
\* gives the caller a value different from the one an end of stream gives.
C3_TruncationDistinguishable ==
    \A a \in outcomes : \A b \in outcomes :
        (a.cause = "eos" /\ b.cause = "truncated") => a.value # b.value

\* C4: a declared length of 0 or 1 is rejected without deriving a payload
\* size by wrap-around and without reading any byte after the length.
C4_ShortLengthRejected ==
    (call.made /\ call.prefix /\ call.block_length < 2) =>
        /\ call.ret = NULL
        /\ call.datasize.hi = 0
        /\ call.bodyread = 0

\* C5: zxs_parse_header returns FALSE exactly when the tag is not 0x00 or
\* the payload length is not 17, and TRUE with a filled header otherwise.
C5_HeaderAccepted ==
    hret # -1 =>
        /\ (hret = 0) <=> (block.type # 0 \/ block.datasize # 17)
        /\ (hret = 1) <=> (block.type = 0 /\ block.datasize = 17)
        /\ (hret = 1) => header # NULL
        /\ (hret = 0) => header = NULL

C5_Witness ==
    /\ hret = 1
    /\ block.data[1] = 255
    /\ block.data[12] = 255
    /\ block.data[17] = 255

\* C6: the parsed datatype is payload byte 0 unchanged, named UNKNOWN(n) when
\* it is not 0..3; length, param1 and param2 are the little-endian words at
\* payload offsets 11, 13 and 15.
C6_HeaderFields ==
    hret = 1 =>
        /\ header.datatype = block.data[1]
        /\ header.length = block.data[12] + 256 * block.data[13]
        /\ header.param1 = block.data[14] + 256 * block.data[15]
        /\ header.param2 = block.data[16] + 256 * block.data[17]
        /\ dtname # "" =>
              /\ block.data[1] = 0 => dtname = "BASIC-PROGRAM"
              /\ block.data[1] = 1 => dtname = "NUMBER-ARRAY"
              /\ block.data[1] = 2 => dtname = "STRING-ARRAY"
              /\ block.data[1] = 3 => dtname = "CODE"
              /\ block.data[1] = 4 => dtname = "UNKNOWN(4)"
              /\ block.data[1] = 255 => dtname = "UNKNOWN(255)"

C6_Witness ==
    /\ hret = 1
    /\ dtname = "UNKNOWN(255)"
    /\ header.length = 256
    /\ header.param1 = 1
    /\ header.param2 = 65535

\* the 10-byte filename field of the block, without its trailing run of
\* space and NUL bytes
RECURSIVE WithoutTrailingPadding(_)
WithoutTrailingPadding(f) ==
    IF f # << >> /\ f[Len(f)] \in {SPACE, 0}
    THEN WithoutTrailingPadding(SubSeq(f, 1, Len(f) - 1))
    ELSE f

\* the bytes of a field before its trailing run of padding hold no NUL
NoEmbeddedNul(f) == \A i \in 1..Len(WithoutTrailingPadding(f)) : f[i] # 0

\* C7: the visible filename is the 10-byte field without its whole trailing
\* run of space and NUL bytes (for a field with no NUL before that run: a C
\* string cannot hold one), and it never ends in a space or a NUL.
C7_FilenameTrimmed ==
    hret = 1 =>
        /\ NoEmbeddedNul(SubSeq(block.data, 2, 11)) =>
              CString(header.filename) = WithoutTrailingPadding(SubSeq(block.data, 2, 11))
        /\ CString(header.filename) # << >> =>
              CString(header.filename)[Len(CString(header.filename))] \notin {SPACE, 0}

(***************************************************************************)
(* The BASIC program layout: records of a big-endian line number, a        *)
(* little-endian length LL and LL bytes, up to the end of the payload or   *)
(* to a line number >= 16384.                                              *)
(***************************************************************************)
NumberField(p, off) == 256 * p[off + 1] + p[off + 2]
LengthField(p, off) == p[off + 3] + 256 * p[off + 4]

RECURSIVE ProgramWellFormed(_, _)
ProgramWellFormed(p, off) ==
    \/ off = Len(p)
    \/ /\ Len(p) - off >= 2
       /\ NumberField(p, off) >= 16384
    \/ /\ Len(p) - off >= 4
       /\ NumberField(p, off) < 16384
       /\ LengthField(p, off) <= Len(p) - off - 4
       /\ ProgramWellFormed(p, off + 4 + LengthField(p, off))

RECURSIVE ProgramLayout(_, _)
ProgramLayout(p, off) ==
    IF off = Len(p) \/ NumberField(p, off) >= 16384 THEN << >>
    ELSE << [ number |-> NumberField(p, off), at |-> off + 4,
              bytes  |-> SubSeq(p, off + 5, off + 4 + LengthField(p, off)) ] >>
         \o ProgramLayout(p, off + 4 + LengthField(p, off))

RECURSIVE NumbersPrinted(_)
NumbersPrinted(recs) ==
    IF recs = << >> THEN ""
    ELSE Printf5d(Head(recs).number) \o NumbersPrinted(Tail(recs))

RECURSIVE TextsPrinted(_)
TextsPrinted(recs) ==
    IF recs = << >> THEN "" ELSE Head(recs).text \o TextsPrinted(Tail(recs))

\* the k-th emitted line is complete: its zxs_fprint_basic_line call is over
LineComplete(k) == k < Len(emitted) \/ pc # "line" \/ ~LineRunning(line)

\* C8: on a well-formed payload the k-th emitted pair is the big-endian line
\* number of the k-th record and the text of exactly its LL bytes, the walk
\* goes from a record at off to the next at off + 4 + LL, the output holds
\* the numbers and the texts in that order, and at the end there is one pair
\* per record before the sentinel or the end of the payload.
C8_ProgramWalk ==
    ProgramWellFormed(data, 0) =>
        LET recs == ProgramLayout(data, 0)
        IN  /\ Len(emitted) <= Len(recs)
            /\ \A k \in 1..Len(emitted) :
                  /\ emitted[k].number = recs[k].number
                  /\ emitted[k].at = recs[k].at
                  /\ emitted[k].length = Len(recs[k].bytes)
                  /\ LineComplete(k) => emitted[k].text = DetokenizeLine(recs[k].bytes)
            /\ stdout = NumbersPrinted(emitted)
            /\ file = TextsPrinted(emitted)
            /\ pc = "done" => (Len(emitted) = Len(recs) /\ ret = 0)

C8_Witness ==
    /\ pc = "done"
    /\ ProgramWellFormed(data, 0)
    /\ Len(emitted) = 2
    /\ emitted[1].number = 256
    /\ emitted[2].number = 1
    /\ emitted[1].length = 2
    /\ dptr = Len(data)

\* a line number >= 16384 stands at the data pointer
SentinelAhead == datasize >= 2 /\ NumberField(data, dptr) >= 16384

\* C9: reading a line number >= 16384 ends the program with 0, emits nothing
\* for that record, keeps what was emitted, and reads no byte after the two
\* bytes of the line number.
C9_Sentinel ==
    [][ (pc = "loop" /\ SentinelAhead) =>
          /\ pc' = "done"
          /\ ret' = 0
          /\ stdout' = stdout
          /\ file' = file
          /\ emitted' = emitted
          /\ maxread' = dptr + 1 ]_vars

C9_Witness ==
    /\ pc = "done"
    /\ head.do = "return"
    /\ head.number = 16384
    /\ Len(emitted) = 1
    /\ stdout # ""
    /\ datasize > 0

\* the record at the data pointer is cut short: no full line number, or a line
\* number below 16384 with no full length or with a length beyond the payload
MalformedAhead ==
    /\ datasize > 0
    /\ \/ datasize < 2
       \/ /\ NumberField(data, dptr) < 16384
          /\ \/ datasize - 2 < 2
             \/ LengthField(data, dptr) > datasize - 4

\* C10: on such a record the program returns an error and emits neither the
\* line number nor any text of the record.
C10_MalformedRejected ==
    [][ (pc = "loop" /\ MalformedAhead) =>
          /\ pc' = "done"
          /\ ret' # 0
          /\ stdout' = stdout
          /\ file' = file
          /\ emitted' = emitted ]_vars

\* a length beyond the payload was met after a line had been emitted
C10_Witness ==
    /\ pc = "done"
    /\ ret = 1
    /\ head.do = "return"
    /\ head.length > head.size - 4
    /\ head.size >= 4
    /\ Len(emitted) = 1

\* a payload that stops inside a line number, and one that stops inside a
\* length, were rejected
C10_WitnessShortFields ==
    /\ pc = "done"
    /\ ret = 1
    /\ head.size \in {1, 3}

(***************************************************************************)
(* The line decoder, on payloads of one line (SpecLine).                    *)
(***************************************************************************)
\* the tokenized line PRINT "HI": the PRINT token, then "HI" in quotes
PrintHi == <<245, 34, 72, 73, 34>>

\* C11: on the payload whose single line is numbered 10 and holds the PRINT
\* token followed by "HI" in quotes, the finished program has emitted exactly
\* one line, numbered 10, and its token text is PRINT "HI" with no leading
\* space before PRINT.
C11_PrintHi ==
    (data = LineRecord(PrintHi) /\ pc = "done") =>
        /\ ret = 0
        /\ Len(emitted) = 1
        /\ emitted[1].number = 10
        /\ emitted[1].text = "PRINT \"HI\""
        /\ file = "PRINT \"HI\""

\* whether the text of one iteration ends in a space: a literal space, or a
\* keyword whose table string ends in one
IterationEndsInSpace(r) ==
    \/ r.class = "ascii" /\ r.byte = SPACE
    \/ r.class = "keyword" /\ Last(ZXS_KEYWORDS[r.byte - ZXS_KEYWORDS_START + 1]) = " "

\* whether the text written by the iterations from locals l up to the one at
\* index upto (not included) ends in a space; sp: whether it does before l
RECURSIVE WrittenSpace(_, _, _, _)
WrittenSpace(l, d, upto, sp) ==
    IF l.i >= upto \/ ~LineRunning(l) THEN sp
    ELSE LET r == LineIteration(l, d)
         IN  WrittenSpace(r.locals, d, upto,
                          IF r.text = "" THEN sp ELSE IterationEndsInSpace(r))

\* the last character written for this line before the last iteration is a space
SpaceBeforeStep ==
    WrittenSpace(LineLocals(step.before.base, step.before.datasize, 0), data,
                 step.before.i, FALSE)

\* the table string of the keyword the last iteration emitted
StepKeyword == ZXS_KEYWORDS[step.byte - ZXS_KEYWORDS_START + 1]

\* C12: whenever a keyword whose table string begins with a space is emitted
\* and the last character written for this line is a space (a literal 0x20 or
\* the trailing space of the keyword just before), the keyword is written
\* without its leading space.
C12_SpaceCollapse ==
    ( /\ step.taken
      /\ step.class = "keyword"
      /\ Head(StepKeyword) = " "
      /\ SpaceBeforeStep )
    => step.text = Concat(Tail(StepKeyword))

\* whether one of the iterations from locals l up to the one at index upto
\* (not included) processed the REM token
RECURSIVE RemProcessed(_, _, _)
RemProcessed(l, d, upto) ==
    IF l.i >= upto \/ ~LineRunning(l) THEN FALSE
    ELSE LET r == LineIteration(l, d)
         IN  r.byte = REM \/ RemProcessed(r.locals, d, upto)

\* a REM token was processed in this line before the last iteration
RemBeforeStep ==
    RemProcessed(LineLocals(step.before.base, step.before.datasize, 0), data,
                 step.before.i)

\* C13: within one line, a quote byte processed before any REM token flips
\* in_quotes; once the REM token was processed in_rem is true after every
\* iteration to the end of the line, and a later quote byte is written as a
\* literal quote and leaves in_quotes as it was.
C13_QuotesAndRem ==
    step.taken =>
        /\ (step.byte = QUOTE /\ ~RemBeforeStep)
               => step.after.in_quotes = ~step.before.in_quotes
        /\ (RemBeforeStep \/ step.byte = REM) => step.after.in_rem
        /\ (RemBeforeStep /\ step.byte = QUOTE)
               => /\ step.text = "\""
                  /\ step.after.in_quotes = step.before.in_quotes

\* a quote processed after a REM token, in a line that opened a string before
C13_Witness ==
    /\ step.taken
    /\ step.byte = QUOTE
    /\ RemBeforeStep
    /\ step.before.in_quotes
    /\ step.after.in_quotes
    /\ step.after.in_rem

\* the text of a keyword: its table string, or the same without the leading space
KeywordTexts(byte) ==
    LET keyword == ZXS_KEYWORDS[byte - ZXS_KEYWORDS_START + 1]
    IN  {Concat(keyword)} \cup
        (IF Head(keyword) = " " THEN {Concat(Tail(keyword))} ELSE {})

\* C14: a byte 0x90..0xA2 is rendered from the UDG table; 0xA3 and 0xA4 are
\* rendered as the UDG glyphs {T} and {U} when in_quotes is true as the byte
\* is processed, and as the keywords SPECTRUM and PLAY when it is false; a
\* byte >= 0xA5 is rendered as a keyword.
C14_UdgOrKeyword ==
    step.taken =>
        /\ step.byte \in 144..162 =>
               /\ step.class = "udg"
               /\ step.text = ZXS_UDG_CHARS[step.byte - 144 + 1]
        /\ (step.byte = 163 /\ step.before.in_quotes) => step.text = "{T}"
        /\ (step.byte = 164 /\ step.before.in_quotes) => step.text = "{U}"
        /\ (step.byte = 163 /\ ~step.before.in_quotes)
               => step.text \in {" SPECTRUM ", "SPECTRUM "}
        /\ (step.byte = 164 /\ ~step.before.in_quotes)
               => step.text \in {" PLAY ", "PLAY "}
        /\ step.byte >= 165 =>
               /\ step.class = "keyword"
               /\ step.text \in KeywordTexts(step.byte)

\* the byte 0xA4 processed inside a string, after 0xA3 was processed outside one
C14_Witness ==
    /\ step.taken
    /\ step.byte = 164
    /\ step.before.in_quotes
    /\ step.text = "{U}"
    /\ data = LineRecord(<<163, 34, 164>>)
    /\ file = " SPECTRUM \"{U}"

\* the number of argument bytes of a control code other than 0x0E
Placeholders(byte) ==
    IF byte \in 16..21 THEN 1 ELSE IF byte \in 22..23 THEN 2 ELSE 0

\* the k-th byte after the byte the last iteration processed
ByteAfterStep(k) == data[step.before.base + step.before.i + 1 + k]

\* the k-th byte after the byte of the last iteration lies in the line
HasByteAfterStep(k) == step.before.i + k < step.before.datasize

ColourNames == <<"INK", "PAPER", "FLASH", "BRIGHT", "INVERSE", "OVER">>
PlaceNames  == <<"AT", "TAB">>

\* the last iteration processed a control code other than the number marker
ControlStep == step.taken /\ step.byte < 32 /\ step.byte # 14

\* C15: a control code below 0x20 other than 0x0E is written as its format
\* with the following raw bytes in its placeholders, and the decoder advances
\* past as many argument bytes as the format has placeholders (0x10..0x15
\* one, 0x16 and 0x17 two, the others none); the argument bytes are not
\* processed as tokens, so that in_quotes and in_rem are as before whatever
\* the arguments are, and the next iteration starts after them.
C15_ControlArguments ==
    ControlStep =>
        /\ step.class = "control"
        /\ step.after.i = step.before.i + 1 + Placeholders(step.byte)
        /\ step.after.in_quotes = step.before.in_quotes
        /\ step.after.in_rem = step.before.in_rem
        /\ pc = "line" => line = step.after
        /\ (Placeholders(step.byte) = 0) =>
               step.text = Concat(ZXS_CTRL_CHARS[step.byte + 1])
        /\ (Placeholders(step.byte) = 1 /\ HasByteAfterStep(1)) =>
               step.text = "{" \o ColourNames[step.byte - 16 + 1] \o " "
                           \o ToString(ByteAfterStep(1)) \o "}"
        /\ (Placeholders(step.byte) = 2 /\ HasByteAfterStep(2)) =>
               step.text = "{" \o PlaceNames[step.byte - 22 + 1] \o " "
                           \o ToString(ByteAfterStep(1)) \o ","
                           \o ToString(ByteAfterStep(2)) \o "}"

\* AT with a quote and a REM byte as its arguments, then a quote: the quote
\* after the arguments is the first to be processed
C15_Witness ==
    /\ data = LineRecord(<<22, 34, 234, 34>>)
    /\ step.taken
    /\ step.byte = QUOTE
    /\ step.before.i = 3
    /\ ~step.before.in_quotes
    /\ ~step.before.in_rem
    /\ file = "{AT 34,234}\""

\* INK followed by 7 is written as the INK format with 7 and takes one more byte
C15_WitnessInk ==
    /\ data = LineRecord(<<16, 7, 65>>)
    /\ step.taken
    /\ step.byte = 16
    /\ step.text = "{INK 7}"
    /\ step.after.i = 2

\* the last iteration processed the number marker 0x0E
MarkerStep == step.taken /\ step.byte = 14

\* C16: the iteration that processes the marker 0x0E skips the next 5 raw
\* bytes: whatever they are, nothing is written, in_quotes and in_rem are as
\* before the marker, the spacing state is the one the marker itself leaves
\* (last_char = 0x0E, as after any byte that is not a keyword), and the next
\* iteration starts at the 6th byte after the marker.
C16_NumberSkipped ==
    MarkerStep =>
        /\ step.text = ""
        /\ step.after.i = step.before.i + 6
        /\ step.after.in_quotes = step.before.in_quotes
        /\ step.after.in_rem = step.before.in_rem
        /\ step.after.last_char = 14
        /\ step.after.err_code = 0
        /\ pc = "line" => line = step.after

\* a marker inside a string, five bytes that are a quote, REM, a space, THEN
\* and a marker, then the closing quote: only the two quotes were written
C16_Witness ==
    /\ data = LineRecord(<<34, 14, 34, 234, 32, 203, 14, 34>>)
    /\ step.taken
    /\ step.byte = QUOTE
    /\ step.before.i = 7
    /\ step.before.in_quotes
    /\ ~step.before.in_rem
    /\ ~step.after.in_quotes
    /\ file = "\"\""

\* the argument bytes a control code takes: 5 after the marker 0x0E
ArgumentBytes(byte) == IF byte = 14 THEN 5 ELSE Placeholders(byte)

\* the last iteration processed a control code whose arguments run past the
\* end of the line
ArgumentsMissing ==
    /\ step.taken
    /\ step.byte < 32
    /\ step.before.i + ArgumentBytes(step.byte) >= step.before.datasize

\* C17: when the argument bytes of a control code (1 or 2 for 0x10..0x17, 5
\* after 0x0E) run past the end of the line, zxs_fprint_basic_line sets an
\* error code: it does not end the line with err_code 0.
C17_TruncatedArguments ==
    ArgumentsMissing => step.after.err_code # 0

\* the class a byte value belongs to, the boundary between UDG glyphs and
\* keywords depending on the quote state
ClassOfByte(byte, in_quotes) ==
    CASE byte \in 0..31    -> "control"
      [] byte \in 32..126  -> "ascii"
      [] byte = 127        -> "copyright"
      [] byte \in 128..143 -> "graph"
      [] byte \in 144..162 -> "udg"
      [] byte \in 163..164 -> IF in_quotes THEN "udg" ELSE "keyword"
      [] byte \in 165..255 -> "keyword"

Range(f) == { f[x] : x \in DOMAIN f }

\* the texts each class writes
ControlTexts(byte) ==
    IF byte \in 16..21
    THEN { "{" \o ColourNames[byte - 16 + 1] \o " " \o ToString(a) \o "}" :
               a \in AllBytes }
    ELSE IF byte \in 22..23
    THEN { "{" \o PlaceNames[byte - 22 + 1] \o " " \o ToString(a) \o ","
               \o ToString(b) \o "}" : a \in {step.args[1]}, b \in AllBytes }
    ELSE { Concat(ZXS_CTRL_CHARS[byte + 1]) }

ClassTexts(class, byte) ==
    CASE class = "control"   -> ControlTexts(byte)
      [] class = "ascii"     -> { ASCII_CHARS[byte - 32 + 1] }
      [] class = "copyright" -> { "{(C)}" }
      [] class = "graph"     -> { ZXS_GRAPH_CHARS[byte - 128 + 1] }
      [] class = "udg"       -> { ZXS_UDG_CHARS[byte - 144 + 1] }
      [] class = "keyword"   -> KeywordTexts(byte)

\* C18: whatever the byte (0..255) and whatever in_quotes and in_rem are, the
\* iteration writes the byte as its one class does (control format, literal
\* character, copyright placeholder, graphics glyph, UDG glyph or keyword),
\* moves on past the byte (and its arguments) and sets no error code.
C18_EveryByteRendered ==
    step.taken =>
        /\ step.byte \in AllBytes
        /\ step.text \in
               ClassTexts(ClassOfByte(step.byte, step.before.in_quotes), step.byte)
        /\ step.after.i =
               step.before.i + 1
               + (IF step.byte < 32 THEN ArgumentBytes(step.byte) ELSE 0)
        /\ step.after.err_code = 0
        /\ pc = "line" => line = step.after
        /\ pc = "done" => ret = 0

\* the copyright byte 0x7F inside a string after a REM, followed by text
C18_Witness ==
    /\ data = LineRecord(<<34, 234, 127, 65, 66, 67>>)
    /\ step.taken
    /\ step.byte = 65
    /\ step.before.i = 3
    /\ step.before.in_quotes
    /\ step.before.in_rem
    /\ file = "\" REM {(C)}A"

(***************************************************************************)
(* The sub-commands (SpecCli).                                              *)
(***************************************************************************)
\* the stream is whole blocks followed by a block that stops after its
\* length prefix: the prefix is there, the tag, payload or checksum is not
RECURSIVE LastBlockTruncated(_)
LastBlockTruncated(s) ==
    /\ Len(s) >= 2
    /\ LET L == s[1] + 256 * s[2]
       IN  \/ Len(s) < L + 2
           \/ LastBlockTruncated(SubSeq(s, L + 3, Len(s)))

\* C19: when fprint_block_list has run on a stream whose last block is
\* truncated after its length prefix, the value it returns is not 0.
C19_TruncationReported ==
    ( /\ cli.cmd = "list"
      /\ cli.pc = "done"
      /\ LastBlockTruncated(tape) )
    => cli.result # 0

\* the whole blocks of a stream in stream order, from offset off up to the
\* first block that is not whole, each with the offsets it lies between
RECURSIVE WholeBlocks(_, _)
WholeBlocks(s, off) ==
    IF Len(s) - off < 2 THEN << >>
    ELSE LET L == s[off + 1] + 256 * s[off + 2]
         IN  IF L < 2 \/ Len(s) - off < L + 2 THEN << >>
             ELSE << [ start |-> off, end |-> off + L + 2, type |-> s[off + 3],
                       data |-> SubSeq(s, off + 4, off + L + 1) ] >>
                  \o WholeBlocks(s, off + L + 2)

\* a header block (tag 0, 17 bytes) whose datatype byte says BASIC
IsBasicHeader(b) == b.type = 0 /\ Len(b.data) = 17 /\ b.data[1] = 0

\* the position in stream order of the earliest BASIC header (0: there is none)
FirstBasicHeader(bs) ==
    IF \E k \in 1..Len(bs) : IsBasicHeader(bs[k])
    THEN CHOOSE k \in 1..Len(bs) :
             /\ IsBasicHeader(bs[k])
             /\ \A j \in 1..(k - 1) : ~IsBasicHeader(bs[j])
    ELSE 0

\* the BASIC sub-command has handed a payload to the detokenizer
ProgramStarted == cli.pc = "program" \/ (cli.pc = "done" /\ pc # "idle")

\* C20: with no name and no index, the header the BASIC sub-command finds is
\* the earliest header block of the stream whose datatype is BASIC (and it is
\* found whenever there is one), and the payload it detokenizes is that of
\* the block that follows this header in the stream, read right after it.
C20_FirstBasicProgram ==
    (cli.cmd = "basic" /\ cli.name = NULL /\ cli.index = -1) =>
        LET bs == WholeBlocks(tape, 0)
            k  == FirstBasicHeader(bs)
        IN  /\ cli.found =>
                /\ k > 0
                /\ cli.matched = k
                /\ reads[k].start = bs[k].start
                /\ cli.header.datatype = 0
                /\ cli.header.filename = FilenameBuffer(bs[k].data)
            /\ (cli.pc \in {"data", "program", "done"} /\ k > 0) => cli.found
            /\ ProgramStarted =>
                /\ Len(bs) >= k + 1
                /\ Len(reads) = k + 1
                /\ reads[k + 1].start = bs[k].end
                /\ reads[k + 1].start = bs[k + 1].start
                /\ data = bs[k + 1].data
            /\ (cli.pc = "done" /\ k > 0 /\ Len(bs) >= k + 1) => ProgramStarted

\* a CODE header and its data, then the BASIC header and the program of line
\* 20: the third block was matched and the fourth detokenized
C20_Witness ==
    /\ cli.cmd = "basic"
    /\ cli.pc = "done"
    /\ cli.result = 0
    /\ cli.matched = 3
    /\ Len(reads) = 4
    /\ ~IsBasicHeader(WholeBlocks(tape, 0)[1])
    /\ WholeBlocks(tape, 0)[1].type = 0
    /\ data = <<0, 20, 1, 0, 245>>
    /\ stdout = "   20"
    /\ file = " PRINT "

(***************************************************************************)
(* C30  fprint_hex_data splits the data, in stream order, into records of  *)
(* 16 bytes, the last one of 1 to 16, and the address of every record      *)
(* (load address + offset) satisfies the assertion 0 <= address <= 65535   *)
(* that _hex_checksum makes, so that the call is never stopped by it, for  *)
(* every load address and every data size.                                 *)
(***************************************************************************)
HexSplitInOrder ==
    \A k \in 1..Len(hex.records) :
        LET r   == hex.records[k]
            off == HEX_MAX_BYTECOUNT * (k - 1)
        IN  /\ r.address = hex.address + off
            /\ Len(r.data) \in 1..HEX_MAX_BYTECOUNT
            /\ (Len(r.data) < HEX_MAX_BYTECOUNT => off + Len(r.data) = Len(hex.data))
            /\ r.data = SubSeq(hex.data, off + 1, off + Len(r.data))

C30_HexRecords ==
    hex # NULL =>
        /\ HexSplitInOrder
        /\ \A k \in 1..Len(hex.records) : AssertAddress(hex.records[k].address)
        /\ hex.pc # "aborted"
        /\ (hex.pc = "done" =>
                hex.ofile = HexText(HexChunks(hex.address, hex.data, 0)))

(***************************************************************************)
(* C24  A call of zxs_read_tap_block that returns no block leaves the read *)
(* position of the stream where it was before the call: a failed call and  *)
(* a call at the end of the stream consume no byte.                        *)
(***************************************************************************)
C24_FailedReadKeepsPosition ==
    (call.made /\ call.ret = NULL) => fpos = call.start

(***************************************************************************)
(* C25  The checksum is advisory: when the stream holds a whole block      *)
(* (length prefix L >= 2 and L bytes after it) and memory is available,    *)
(* zxs_read_tap_block returns the block whether or not its trailing byte   *)
(* is the XOR of the tag and the payload bytes, and the checksum field of  *)
(* the block is the trailing byte as stored in the stream.                 *)
(***************************************************************************)
WholeBlockAt(start) ==
    /\ start + 2 <= Len(tape)
    /\ GET_LE_WORD(tape, start) >= 2
    /\ start + 2 + GET_LE_WORD(tape, start) <= Len(tape)

ChecksumMatches(b) == b.checksum = XorBytes(<<b.type>> \o b.data)

C25_ChecksumAdvisory ==
    /\ (call.made /\ WholeBlockAt(call.start) /\ call.cause # "nomem") =>
            /\ call.ret # NULL
            /\ call.ret.checksum = tape[call.start + 2 + call.block_length]
            /\ fpos = call.start + 2 + call.block_length
    /\ \A k \in 1..Len(reads) :
            reads[k].block.checksum = tape[reads[k].end]

C25_Witness ==
    /\ call.made
    /\ WholeBlockAt(call.start)
    /\ call.ret # NULL
    /\ call.ret.datasize >= 1
    /\ ~ChecksumMatches(call.ret)
    /\ \E k \in 1..Len(reads) : ChecksumMatches(reads[k].block)

(***************************************************************************)
(* C27  Every table lookup of zxs_fprint_basic_line is within the bounds   *)
(* of its table: for every byte 0..255 and both values of in_quotes the    *)
(* index is below 32 for ZXS_CTRL_CHARS, below 16 for ZXS_GRAPH_CHARS,     *)
(* within the entries of ZXS_UDG_CHARS for byte - 0x90 and below 93 for    *)
(* ZXS_KEYWORDS with byte - 0xA3.                                          *)
(***************************************************************************)
TableIndex(byte, in_quotes) ==
    LET class == ByteClass(byte, in_quotes)
    IN  CASE class = "control" -> [table |-> ZXS_CTRL_CHARS, size |-> 32,
                                   index |-> byte]
          [] class = "graph"   -> [table |-> ZXS_GRAPH_CHARS, size |-> 16,
                                   index |-> byte - ZXS_GRAPH_CHARS_START]
          [] class = "udg"     -> [table |-> ZXS_UDG_CHARS, size |-> 21,
                                   index |-> byte - ZXS_UDG_CHARS_START]
          [] class = "keyword" -> [table |-> ZXS_KEYWORDS, size |-> 93,
                                   index |-> byte - ZXS_KEYWORDS_START]
          [] OTHER             -> [table |-> <<"">>, size |-> 1, index |-> 0]

LookupInBounds(byte, in_quotes) ==
    LET t == TableIndex(byte, in_quotes)
    IN  /\ Len(t.table) = t.size
        /\ 0 <= t.index
        /\ t.index < t.size

\* The tables and the if-chain do not depend on the state: all bytes are
\* checked once, at the start of the empty line, and the byte of every
\* iteration where it is run.
C27_TableLookups ==
    /\ (data = LineRecord(<< >>) /\ pc = "loop" /\ dptr = 0) =>
            \A byte \in AllBytes, in_quotes \in BOOLEAN :
                LookupInBounds(byte, in_quotes)
    /\ step # NULL /\ step.taken =>
          /\ step.class = ByteClass(step.byte, step.before.in_quotes)
          /\ LookupInBounds(step.byte, step.before.in_quotes)

C27_Witness ==
    /\ step # NULL
    /\ step.taken
    /\ step.before.in_quotes
    /\ step.byte = 164
    /\ step.class = "udg"
    /\ TableIndex(step.byte, TRUE).index = 20
    /\ step.text = "{U}"

(***************************************************************************)
(* C26  zxs_fprint_basic_program writes the whole program to the stream it *)
(* is given: for every line it emits, the line number and then the         *)
(* detokenized text are written to file, so that file holds the line       *)
(* numbers when it is not the standard output (a .bas file of extraction). *)
(***************************************************************************)
RECURSIVE NumberedText(_)
NumberedText(es) ==
    IF es = << >> THEN ""
    ELSE Printf5d(Head(es).number) \o Head(es).text \o NumberedText(Tail(es))

C26_NumbersInFile ==
    pc \in {"loop", "done"} => file = NumberedText(emitted)

(***************************************************************************)
(* C28  The detokenizer never reads outside what it was given:             *)
(* zxs_fprint_basic_line reads no byte at an index >= its datasize, also   *)
(* when a control code or the number marker 0x0E is among the last bytes   *)
(* of the line, zxs_fprint_basic_program reads no byte beyond the payload, *)
(* and a line whose last control code lacks its arguments takes nothing    *)
(* from the line record after it: that record starts right after the       *)
(* line's own bytes.                                                       *)
(***************************************************************************)
LineEnd(l) == l.base + l.datasize

RecordsContiguous ==
    \A k \in 1..(Len(emitted) - 1) :
        emitted[k + 1].at = emitted[k].at + emitted[k].length + 4

C28_ReadsInBounds ==
    /\ maxread < Len(data)
    /\ pc = "line" => maxread < LineEnd(line)
    /\ (pc = "line" /\ step.taken /\ step.after = line) =>
            /\ step.before.i < step.before.datasize
            /\ step.before.base = line.base
    /\ RecordsContiguous
    /\ (pc = "loop" /\ Len(emitted) > 0) =>
            dptr = emitted[Len(emitted)].at + emitted[Len(emitted)].length

C28_Witness ==
    /\ Len(emitted) = 2
    /\ emitted[1].length = 1
    /\ data[emitted[1].at + 1] = 16
    /\ emitted[1].text = "{INK 0}"
    /\ emitted[2].length = 1
    /\ emitted[2].text = "A"
    /\ pc = "done"
    /\ maxread = Len(data) - 1

(***************************************************************************)
(* C23  The state of the line printer is scoped to one line: in_quotes,    *)
(* in_rem and last_char start from their initial values at every line of   *)
(* zxs_fprint_basic_program, so the text written for a line is the text of *)
(* that line's own bytes alone; an open quote or a REM in one line does    *)
(* not change how a later line is written.                                 *)
(***************************************************************************)
LineBytesOf(e) == SubSeq(data, e.at + 1, e.at + e.length)

LineFinished(k) == k < Len(emitted) \/ pc \in {"loop", "done"}

C23_LineStateScoped ==
    /\ (pc = "line" /\ line.i = 0) =>
            /\ line.last_char = 0
            /\ ~line.in_quotes
            /\ ~line.in_rem
    /\ \A k \in 1..Len(emitted) :
            LineFinished(k) =>
                emitted[k].text = DetokenizeLine(LineBytesOf(emitted[k]))

C23_Witness ==
    /\ pc = "done"
    /\ Len(emitted) = 2
    /\ LineBytesOf(emitted[1]) = <<34>>
    /\ LineBytesOf(emitted[2]) = <<163>>
    /\ emitted[2].text = " SPECTRUM "
    /\ step.after.in_quotes = FALSE

C23_WitnessSpacing ==
    /\ pc = "done"
    /\ Len(emitted) = 2
    /\ LineBytesOf(emitted[1]) = <<245>>
    /\ LineBytesOf(emitted[2]) = <<245, 65>>
    /\ emitted[2].text = " PRINT A"

\* a header block (tag 0, 17 bytes) and the number of header blocks among the
\* first k blocks of bs
IsHeader(b) == b.type = 0 /\ Len(b.data) = 17

HeaderOrdinal(bs, k) == Cardinality({ j \in 1..k : IsHeader(bs[j]) })

\* every header has its data block right after it and every other block
\* follows its header
PairedBlocks(bs) ==
    /\ Len(bs) % 2 = 0
    /\ \A k \in 1..Len(bs) : IsHeader(bs[k]) <=> (k % 2 = 1)

(***************************************************************************)
(* C21  The extract sub-command extracts all blocks: when                  *)
(* extract_all_zx_blocks has returned, every BASIC or CODE header of the   *)
(* tape that is followed by its data block has one output file, a .bas     *)
(* file for BASIC and a .hex file for CODE, written without error,         *)
(* whatever the datatypes of the headers before it.  Checked on tapes of   *)
(* whole blocks where every header has its data block after it.            *)
(***************************************************************************)
C21_ExtractsAll ==
    ( /\ cli # NULL
      /\ cli.cmd = "extract"
      /\ cli.pc = "done"
      /\ Len(WholeBlocks(tape, 0)) > 0
      /\ WholeBlocks(tape, 0)[Len(WholeBlocks(tape, 0))].end = Len(tape)
      /\ PairedBlocks(WholeBlocks(tape, 0)) )
    => LET bs == WholeBlocks(tape, 0)
       IN  \A k \in 1..Len(bs) :
              (IsHeader(bs[k])
                  /\ bs[k].data[1] \in {ZXS_DATATYPE_BASIC, ZXS_DATATYPE_CODE})
              => \E o \in 1..Len(cli.outputs) :
                    /\ cli.outputs[o].block = k
                    /\ cli.outputs[o].index = HeaderOrdinal(bs, k)
                    /\ cli.outputs[o].ext = OutputExt(bs[k].data[1])
                    /\ cli.outputs[o].err = 0

(***************************************************************************)
(* C22  Index selection is 1-based and consistent: the print sub-command   *)
(* with index n >= 1 finds exactly the n-th header block of the tape,      *)
(* counting header blocks only and the first header as 1, which is the     *)
(* index the list sub-command prints in the row of that header; no index   *)
(* finds two different headers, and an index above the number of headers   *)
(* finds none.                                                             *)
(***************************************************************************)
HeaderCount(bs) == HeaderOrdinal(bs, Len(bs))

C22_IndexSelection ==
    LET bs == WholeBlocks(tape, 0)
    IN  /\ (cli # NULL /\ cli.cmd = "print" /\ cli.found) =>
              /\ cli.index >= FIRST_HEADER_INDEX
              /\ cli.matched \in 1..Len(bs)
              /\ IsHeader(bs[cli.matched])
              /\ HeaderOrdinal(bs, cli.matched) = cli.index - FIRST_HEADER_INDEX + 1
              /\ reads[cli.matched].start = bs[cli.matched].start
              /\ cli.header.datatype = bs[cli.matched].data[1]
              /\ cli.header.filename = FilenameBuffer(bs[cli.matched].data)
              /\ \A j \in 1..Len(bs) :
                    (IsHeader(bs[j]) /\ HeaderOrdinal(bs, j) = cli.index) =>
                        j = cli.matched
        /\ (cli # NULL /\ cli.cmd = "print" /\ cli.pc = "done" /\ ~cli.found) =>
              /\ HeaderCount(bs) < cli.index
              /\ cli.result = 1
        /\ (cli # NULL /\ cli.cmd = "print" /\ cli.pc \in {"data", "program", "hex"}) =>
              cli.found
        /\ (cli # NULL /\ cli.cmd = "list") =>
              /\ Len(cli.rows) = Len(reads)
              /\ \A j \in 1..Len(cli.rows) :
                    /\ (cli.rows[j].kind = "header") <=> IsHeader(bs[j])
                    /\ cli.rows[j].kind = "header" =>
                          cli.rows[j].index = HeaderOrdinal(bs, j)

\* index 2 on a tape whose second header is its third block: the CODE header
\* after a BASIC header and its program was found and its data printed
C22_Witness ==
    /\ cli # NULL
    /\ cli.cmd = "print"
    /\ cli.index = 2
    /\ cli.found
    /\ cli.matched = 3
    /\ cli.header.datatype = ZXS_DATATYPE_CODE
    /\ reads[1].block.data[1] = ZXS_DATATYPE_BASIC
    /\ cli.pc = "done"
    /\ cli.result = 0
    /\ file = ":09000A00000A000000140100418D\n"

(***************************************************************************)
(* C29  Every run over a finite input terminates: a sub-command started on *)
(* a finite tape reaches its return.  On the way every block read that     *)
(* returns a block has consumed at least 3 bytes, every iteration of the   *)
(* loop of zxs_fprint_basic_program that prints a line has consumed at     *)
(* least the 4 bytes of the line's head, also for a line of length 0, and  *)
(* after a read that returned no block no further read is made: the loops  *)
(* of list, find and extract end at the first failed read.                 *)
(***************************************************************************)
Terminated == cli # NULL /\ cli.pc = "done"

ReadsConsume ==
    \A k \in 1..Len(reads) : reads[k].end - reads[k].start >= 3

LinesConsume ==
    /\ (pc = "line" /\ head.do = "line") => dptr - head.at = 4
    /\ (pc = "loop" /\ head.do = "line") => dptr - head.at = 4 + head.length

NoReadAfterFailedRead ==
    (call.made /\ call.ret = NULL) => UNCHANGED <<fpos, call, reads>>

C29_Terminates ==
    /\ <>Terminated
    /\ [](ReadsConsume /\ LinesConsume)
    /\ [][NoReadAfterFailedRead]_vars

\* the list, the print and the extract sub-command returned after a failed
\* read; the program printed had a line of length 0
C29_Witness ==
    /\ Terminated
    /\ call.made
    /\ call.ret = NULL
    /\ Len(reads) >= 2
    /\ cli.cmd = "extract"
    /\ Len(cli.outputs) >= 1
    /\ Len(emitted) >= 2
    /\ emitted[1].length = 0

====
